---- MODULE Spec2Model ----
(***************************************************************************)
(* Credential rotation state machine of the TattooDirectory repository:    *)
(* backend/src/handlers/secret-rotation/index.py.  One secret (one ARN) of *)
(* the secret store, the target search service's master password, and the  *)
(* rotation handler invoked once per protocol step by an orchestrator.      *)
(***************************************************************************)
EXTENDS Integers, Sequences, FiniteSets, TLC

(* ------------------------------ bounds -------------------------------- *)
\* number of distinct password values the generator can draw
NumPasswords == 2
\* number of upstream failures the environment may inject in a supervised run
MaxFaults == 2
\* number of createSecret invocations in flight at once
NumInvocations == 2
\* number of addresses the network service allocates before it is left alone
MaxAllocations == 2
\* the longest password asked for by an explicit length
MaxLength == 10
\* how deep the logged data nests
MaxDepth == 3

(* ----------------------------- vocabulary ------------------------------ *)
VersionIds == {"V0", "T1", "T2"}
Stages     == {"AWSCURRENT", "AWSPENDING", "AWSPREVIOUS"}
Steps      == {"createSecret", "setSecret", "testSecret", "finishSecret"}
StepNames  == Steps \cup {"invalidStep"}
\* where an upstream call of one invocation can fail:
\*   describe_secret  the handler's first describe_secret raises
\*   read             the step's read (get_secret_value / describe_secret) raises
\*   write            the step's store write or target call raises, no effect
\*   lost             that call takes effect upstream but raises to the caller
Faults     == {"none", "describe_secret", "read", "write", "lost"}
\* a version without a value / a read that raised
NoValue    == <<>>
None       == "None"
\* iteration order of the VersionIdsToStages dictionary
VersionOrder == <<"V0", "T1", "T2">>
Protocol   == <<"createSecret", "setSecret", "testSecret", "finishSecret">>

(* -------------------------- password generator ------------------------- *)
\* generate_complex_password(length=24), and the length below which it raises
DefaultLength == 24
MinLength     == 8

\* string.ascii_lowercase, string.ascii_uppercase, string.digits and the
\* generator's own symbol set, one character per element
Lowercase == <<"a", "b", "c", "d", "e", "f", "g", "h", "i", "j", "k", "l", "m",
               "n", "o", "p", "q", "r", "s", "t", "u", "v", "w", "x", "y", "z">>
Uppercase == <<"A", "B", "C", "D", "E", "F", "G", "H", "I", "J", "K", "L", "M",
               "N", "O", "P", "Q", "R", "S", "T", "U", "V", "W", "X", "Y", "Z">>
Digits    == <<"0", "1", "2", "3", "4", "5", "6", "7", "8", "9">>
Symbols_withAt == <<"@", "#", "$", "%", "&", "(", ")", "*", "+", ",", "-", ".", ":",
               ";", "<", "=", ">", "?", "[", "]", "^", "_", "{", "|", "}", "~">>
Symbols   == <<"!", "#", "$", "%", "&", "(", ")", "*", "+", ",", "-", ".", ":",
               ";", "<", "=", ">", "?", "[", "]", "^", "_", "{", "|", "}", "~">>
AllChars  == Lowercase \o Uppercase \o Digits \o Symbols

\* random.choice(seq) for the draw r of the generator
random_choice(seq, r) == seq[(r % Len(seq)) + 1]

\* random.shuffle(list) for the draw r: the list rotated by r places
random_shuffle(list, r) ==
  [i \in 1 .. Len(list) |-> list[((i - 1 + r) % Len(list)) + 1]]

\* ''.join(list)
RECURSIVE join(_)
join(list) == IF list = <<>> THEN "" ELSE Head(list) \o join(Tail(list))

\* the generator taking all its characters from the whole alphabet
complex_password_unseeded(length, first, fill, shuffle) ==
  IF length < MinLength THEN "InvalidPasswordLength"
  ELSE
    LET password ==
          [i \in 1 .. length |->
             random_choice(AllChars, IF i <= 4 THEN first[i] ELSE fill[i - 4])]
    IN join(random_shuffle(password, shuffle))

\* the generator without its length check
complex_password_unchecked(length, first, fill, shuffle) ==
  LET password ==
        <<random_choice(Lowercase, first[1]), random_choice(Uppercase, first[2]),
          random_choice(Digits, first[3]), random_choice(Symbols, first[4])>>
        \o [i \in 1 .. length - 4 |-> random_choice(AllChars, fill[i])]
  IN join(random_shuffle(password, shuffle))

\* generate_complex_password for the draws of its random source: one
\* character of each class (draws first), the rest from all classes (draws
\* fill), shuffled (draw shuffle), joined
complex_password(length, first, fill, shuffle) ==
  IF length < MinLength THEN "InvalidPasswordLength"
  ELSE
    LET password ==
          <<random_choice(Lowercase, first[1]), random_choice(Uppercase, first[2]),
            random_choice(Digits, first[3]), random_choice(Symbols, first[4])>>
          \o [i \in 1 .. length - 4 |-> random_choice(AllChars, fill[i])]
    IN join(random_shuffle(password, shuffle))

\* the generator with a random source in the state seed
generate_complex_password(length, seed) ==
  complex_password(length, <<seed, seed, seed, seed>>,
                   [i \in 1 .. length - 4 |-> seed * i + i], seed)

(* ------------------------ sensitive-field redaction --------------------- *)
\* logged values: a string, a dictionary (keys to values), a list
Str(v)      == [kind |-> "str", value |-> v]
Dict(items) == [kind |-> "dict", items |-> items]
List(elems) == [kind |-> "list", elems |-> elems]

\* the redaction marker
REDACTED == Str("[REDACTED]")

\* sensitive_keys of scrub_sensitive_data, per service of the log entry
sensitive_keys(service) ==
  IF service = "rotate-nat-gateway-eip"
    THEN {"password", "secret", "key", "token", "credential",
          "allocation_id", "network_interface_id"}
    ELSE {"password", "secret", "key", "token", "credential", "auth",
          "opensearch_master_password", "opensearch_master_username",
          "master_user_password", "secretstring", "secretvalue"}

\* str.lower() on one character and on a string
lower_char(c) ==
  IF \E i \in DOMAIN Uppercase : Uppercase[i] = c
    THEN Lowercase[CHOOSE i \in DOMAIN Uppercase : Uppercase[i] = c]
    ELSE c
lower(str) == join([i \in 1 .. Len(str) |-> lower_char(SubSeq(str, i, i))])

\* sub in str
contains(sub, str) ==
  \E i \in 1 .. Len(str) - Len(sub) + 1 : SubSeq(str, i, i + Len(sub) - 1) = sub

\* any(sensitive_key in key.lower() for sensitive_key in sensitive_keys)
is_sensitive(service, key) ==
  \E sensitive_key \in sensitive_keys(service) : contains(sensitive_key, lower(key))

\* what scrub_sensitive_data stores for one member of the dictionary, nested
\* being the scrubbed value: once without the recursive call, and as the
\* handlers have it
scrubbed_member_flat(service, key, value, nested) ==
  IF is_sensitive(service, key) THEN REDACTED
  ELSE value
scrubbed_member(service, key, value, nested) ==
  IF is_sensitive(service, key) THEN REDACTED
  ELSE IF value.kind = "dict" THEN nested
  ELSE value

RECURSIVE scrub_sensitive_data(_, _)
scrub_sensitive_data(service, data) ==
  IF data.kind # "dict" THEN data
  ELSE Dict([key \in DOMAIN data.items |->
               scrubbed_member(service, key, data.items[key],
                               scrub_sensitive_data(service, data.items[key]))])

\* create_secret asking the generator for 16 characters
Password_short(seed) == generate_complex_password(16, seed)

\* the password create_secret gets from generate_complex_password()
Password(seed) == generate_complex_password(DefaultLength, seed)

Passwords == {Password(seed) : seed \in 1 .. NumPasswords}

VARIABLES
  RotationEnabled,     \* describe_secret()['RotationEnabled']
  VersionIdsToStages,  \* describe_secret()['VersionIdsToStages']
  SecretString,        \* per version: the stored payload, or NoValue
  MasterUserPassword,  \* the target domain's master user password
  event,               \* the last invocation's request (Step, ClientRequestToken)
  upstream,            \* the upstream failure met by the last invocation
  result,              \* how the last invocation ended: "ok" or the error kind
  calls,               \* store writes and target calls the last invocation made
  generated,           \* the password the last invocation generated, if it did
  notified,            \* notifications the last invocation published
  prev,                \* supervised run: request and result of the invocation before
  phase,               \* supervised run: index of the step the orchestrator is at
  faultsLeft,          \* supervised run: upstream failures still to be injected
  tick,                \* supervised run: parity of the number of invocations
  pc,                  \* concurrent run: per invocation, the store call it is at
  local,               \* concurrent run: per invocation, its local variables
  deployment,          \* EIP rotator: which of the repository's handlers is deployed
  NatGateways,         \* describe_nat_gateways()['NatGateways'] for the tag filter
  Addresses,           \* allocation ids of the addresses that exist
  allocations,         \* number of addresses allocate_address has issued
  eipFaults,           \* EIP rotator: the calls that failed in the last invocation
  ec2calls,            \* EIP rotator: allocate/associate/release calls it made
  published,           \* EIP rotator: sns.publish calls it made
  response,            \* EIP rotator: what the last invocation returned
  drawn,               \* generator: the length asked for and the random draws
  returned,            \* generator: what the call returned
  log_service,         \* logger: the service whose structured_log is called
  log_data,            \* logger: the data handed to structured_log
  scrubbed_data        \* logger: what scrub_sensitive_data returned for it

rotatorVars    == <<RotationEnabled, VersionIdsToStages, SecretString,
                     MasterUserPassword, event, upstream, result, calls,
                     generated, notified>>
supervisorVars == <<prev, phase, faultsLeft, tick>>
concurrentVars == <<pc, local>>
eipVars        == <<deployment, NatGateways, Addresses, allocations, eipFaults,
                     ec2calls, published, response>>

generatorVars  == <<drawn, returned>>

loggerVars     == <<log_service, log_data, scrubbed_data>>

vars == <<rotatorVars, supervisorVars, concurrentVars, eipVars, generatorVars,
          loggerVars>>

(* ------------------------- secret store (client) ----------------------- *)
Holders(versions, stage) == {v \in DOMAIN versions : stage \in versions[v]}

\* get_secret_value(SecretId, VersionStage) / (SecretId, VersionId, VersionStage):
\* the payload of the version carrying the stage, NoValue when there is none
get_secret_value(stage, token) ==
  LET holders == IF token = None
                   THEN Holders(VersionIdsToStages, stage)
                   ELSE Holders(VersionIdsToStages, stage) \cap {token}
  IN IF holders = {} THEN NoValue
     ELSE SecretString[CHOOSE v \in holders : TRUE]

\* put_secret_value(SecretId, ClientRequestToken, SecretString, VersionStages):
\* creates the version's value once; a repeat with the same value is ignored,
\* a repeat with another value is rejected (the store's conflict detection)
put_secret_value(token, value, stages) ==
  IF token \in DOMAIN VersionIdsToStages /\ SecretString[token] # NoValue
    THEN [ok |-> SecretString[token] = value,
          VersionIdsToStages |-> VersionIdsToStages,
          SecretString |-> SecretString]
    ELSE [ok |-> TRUE,
          VersionIdsToStages |->
            [v \in DOMAIN VersionIdsToStages \cup {token} |->
               IF v = token
                 THEN (IF v \in DOMAIN VersionIdsToStages
                         THEN VersionIdsToStages[v] ELSE {}) \cup stages
                 ELSE VersionIdsToStages[v] \ stages],
          SecretString |-> [SecretString EXCEPT ![token] = value]]

\* update_secret_version_stage(SecretId, VersionStage, MoveToVersionId,
\* RemoveFromVersionId): one store operation that detaches the label from the
\* version named as its holder (if one is named) and attaches it to the target
update_secret_version_stage(stage, moveTo, removeFrom) ==
  LET versions == VersionIdsToStages
      valid    == /\ moveTo \in DOMAIN versions
                  /\ removeFrom # None => removeFrom \in DOMAIN versions
  IN IF ~valid THEN [ok |-> FALSE, VersionIdsToStages |-> versions]
     ELSE [ok |-> TRUE,
           VersionIdsToStages |->
             [v \in DOMAIN versions |->
                IF v = moveTo THEN versions[v] \cup {stage}
                ELSE IF v = removeFrom THEN versions[v] \ {stage}
                ELSE versions[v]]]

(* ------------------------------ outcomes ------------------------------- *)
Outcome(res, versions, strings, master, made) ==
  [result |-> res, VersionIdsToStages |-> versions, SecretString |-> strings,
   MasterUserPassword |-> master, calls |-> made]

\* the invocation raises (or returns) having changed nothing upstream
Unchanged(res, made) ==
  Outcome(res, VersionIdsToStages, SecretString, MasterUserPassword, made)

(* --------------------------- JSON and dicts ---------------------------- *)
Keys(d) == {d[i][1] : i \in DOMAIN d}

\* d[key] = value on a dict: replaces the member in place, else appends it
DictSet(d, key, value) ==
  IF key \in Keys(d)
    THEN [i \in DOMAIN d |-> IF d[i][1] = key THEN <<key, value>> ELSE d[i]]
    ELSE Append(d, <<key, value>>)

\* d.get(key): the member's value, None when the key is absent
DictGet(d, key) ==
  IF key \in Keys(d)
    THEN d[CHOOSE i \in DOMAIN d : d[i][1] = key][2]
    ELSE None

\* json.loads of an object: members in order, a repeated key keeps its last value
RECURSIVE json_loads(_)
json_loads(s) ==
  IF s = <<>> THEN <<>>
  ELSE DictSet(json_loads(SubSeq(s, 1, Len(s) - 1)), s[Len(s)][1], s[Len(s)][2])

\* json.dumps of a dict: its members in insertion order
json_dumps(d) == [i \in DOMAIN d |-> <<d[i][1], d[i][2]>>]

(* ------------------------------ the steps ------------------------------ *)
\* get_secret_dict: get_secret_value, then json.loads of its SecretString;
\* NoValue stands for the exception it re-raises
get_secret_dict(stage, token, fault) ==
  IF fault = "read" \/ get_secret_value(stage, token) = NoValue THEN NoValue
  ELSE json_loads(get_secret_value(stage, token))

\* create_secret repeating a put_secret_value that failed
create_secret_retries(token, fault, new_password) ==
  LET current_secret == get_secret_dict("AWSCURRENT", None, fault) IN
  IF current_secret = NoValue THEN Unchanged("UpstreamCallFailed", <<>>)
  ELSE
    LET value == json_dumps(DictSet(current_secret, "opensearch_master_password",
                                    new_password))
        call  == [op |-> "put_secret_value", token |-> token, value |-> value,
                  stages |-> {"AWSPENDING"}]
        put   == put_secret_value(token, value, {"AWSPENDING"})
    IN IF ~put.ok THEN Unchanged("UpstreamCallFailed", <<call, call>>)
       ELSE Outcome("ok", put.VersionIdsToStages, put.SecretString,
                    MasterUserPassword,
                    IF fault \in {"write", "lost"} THEN <<call, call>>
                    ELSE <<call>>)

\* create_secret building the new value from the password alone
create_secret_onlyPassword(token, fault, new_password) ==
  LET current_secret == get_secret_dict("AWSCURRENT", None, fault) IN
  IF current_secret = NoValue THEN Unchanged("UpstreamCallFailed", <<>>)
  ELSE
    LET value == json_dumps(<<<<"opensearch_master_password", new_password>>>>)
        call  == [op |-> "put_secret_value", token |-> token, value |-> value,
                  stages |-> {"AWSPENDING"}]
        put   == put_secret_value(token, value, {"AWSPENDING"})
    IN IF fault = "write" \/ ~put.ok
         THEN Unchanged("UpstreamCallFailed", <<call>>)
         ELSE Outcome(IF fault = "lost" THEN "UpstreamCallFailed" ELSE "ok",
                      put.VersionIdsToStages, put.SecretString,
                      MasterUserPassword, <<call>>)

\* create_secret writing the new version with VersionStages=['AWSCURRENT']
create_secret_stagesCurrent(token, fault, new_password) ==
  LET current_secret == get_secret_dict("AWSCURRENT", None, fault) IN
  IF current_secret = NoValue THEN Unchanged("UpstreamCallFailed", <<>>)
  ELSE
    LET value == json_dumps(DictSet(current_secret, "opensearch_master_password",
                                    new_password))
        call  == [op |-> "put_secret_value", token |-> token, value |-> value,
                  stages |-> {"AWSCURRENT"}]
        put   == put_secret_value(token, value, {"AWSCURRENT"})
    IN IF fault = "write" \/ ~put.ok
         THEN Unchanged("UpstreamCallFailed", <<call>>)
         ELSE Outcome(IF fault = "lost" THEN "UpstreamCallFailed" ELSE "ok",
                      put.VersionIdsToStages, put.SecretString,
                      MasterUserPassword, <<call>>)

create_secret(token, fault, new_password) ==
  LET current_secret == get_secret_dict("AWSCURRENT", None, fault) IN
  IF current_secret = NoValue THEN Unchanged("UpstreamCallFailed", <<>>)
  ELSE
    LET value == json_dumps(DictSet(current_secret, "opensearch_master_password",
                                    new_password))
        call  == [op |-> "put_secret_value", token |-> token, value |-> value,
                  stages |-> {"AWSPENDING"}]
        put   == put_secret_value(token, value, {"AWSPENDING"})
    IN IF fault = "write" \/ ~put.ok
         THEN Unchanged("UpstreamCallFailed", <<call>>)
         ELSE Outcome(IF fault = "lost" THEN "UpstreamCallFailed" ELSE "ok",
                      put.VersionIdsToStages, put.SecretString,
                      MasterUserPassword, <<call>>)

\* set_secret reading the AWSCURRENT version instead of the AWSPENDING one
set_secret_readsCurrent(token, fault) ==
  LET pending_secret == get_secret_dict("AWSCURRENT", None, fault) IN
  IF pending_secret = NoValue THEN Unchanged("UpstreamCallFailed", <<>>)
  ELSE
    LET new_password == DictGet(pending_secret, "opensearch_master_password")
        call == [op |-> "update_domain_config", value |-> new_password]
    IN IF new_password = None THEN Unchanged("UpstreamCallFailed", <<>>)
       ELSE IF fault = "write" THEN Unchanged("UpstreamCallFailed", <<call>>)
       ELSE Outcome(IF fault = "lost" THEN "UpstreamCallFailed" ELSE "ok",
                    VersionIdsToStages, SecretString, new_password, <<call>>)

set_secret(token, fault) ==
  LET pending_secret == get_secret_dict("AWSPENDING", token, fault) IN
  IF pending_secret = NoValue THEN Unchanged("UpstreamCallFailed", <<>>)
  ELSE
    LET new_password == DictGet(pending_secret, "opensearch_master_password")
        call == [op |-> "update_domain_config", value |-> new_password]
    IN IF new_password = None THEN Unchanged("UpstreamCallFailed", <<>>)
       ELSE IF fault = "write" THEN Unchanged("UpstreamCallFailed", <<call>>)
       ELSE Outcome(IF fault = "lost" THEN "UpstreamCallFailed" ELSE "ok",
                    VersionIdsToStages, SecretString, new_password, <<call>>)

\* test_secret without the check of the three connection fields
test_secret_noFieldCheck(token, fault) ==
  LET pending_secret == get_secret_dict("AWSPENDING", token, fault) IN
  IF pending_secret = NoValue THEN Unchanged("UpstreamCallFailed", <<>>)
  ELSE
    LET password == DictGet(pending_secret, "opensearch_master_password")
        call == [op |-> "info", value |-> password]
    IN IF fault \in {"write", "lost"}
         THEN Unchanged("UpstreamCallFailed", <<call>>)
       ELSE IF password # MasterUserPassword
         THEN Unchanged("AuthenticationFailed", <<call>>)
       ELSE Unchanged("ok", <<call>>)

test_secret(token, fault) ==
  LET pending_secret == get_secret_dict("AWSPENDING", token, fault) IN
  IF pending_secret = NoValue THEN Unchanged("UpstreamCallFailed", <<>>)
  ELSE
    LET password == DictGet(pending_secret, "opensearch_master_password")
        username == DictGet(pending_secret, "opensearch_master_username")
        call == [op |-> "info", value |-> password]
    IN IF password \in {None, ""} \/ username \in {None, ""} THEN Unchanged("MissingCredentialFields", <<>>)
       ELSE IF fault \in {"write", "lost"}
         THEN Unchanged("UpstreamCallFailed", <<call>>)
       ELSE IF password # MasterUserPassword
         THEN Unchanged("AuthenticationFailed", <<call>>)
       ELSE Unchanged("ok", <<call>>)

\* the loop of finish_secret over the dictionary: the first version that
\* carries AWSCURRENT, None when no version does
current_version(versions) ==
  LET holders == Holders(versions, "AWSCURRENT") IN
  IF holders = {} THEN None
  ELSE VersionOrder[CHOOSE i \in DOMAIN VersionOrder :
         /\ VersionOrder[i] \in holders
         /\ \A j \in 1 .. i - 1 : VersionOrder[j] \notin holders]

\* finish_secret with RemoveFromVersionId never set: the prior holder is not named
finish_secret_noRemove(token, fault) ==
  IF fault = "read" THEN Unchanged("UpstreamCallFailed", <<>>)
  ELSE IF current_version(VersionIdsToStages) = token THEN Unchanged("ok", <<>>)
  ELSE
    LET call == [op |-> "update_secret_version_stage",
                 stage |-> "AWSCURRENT", moveTo |-> token, removeFrom |-> None]
        upd  == update_secret_version_stage("AWSCURRENT", token, None)
    IN IF fault = "write" \/ ~upd.ok
         THEN Unchanged("UpstreamCallFailed", <<call>>)
         ELSE Outcome(IF fault = "lost" THEN "UpstreamCallFailed" ELSE "ok",
                      upd.VersionIdsToStages, SecretString,
                      MasterUserPassword, <<call>>)

\* finish_secret with RemoveFromVersionId=token instead of current_version
finish_secret_removeFromToken(token, fault) ==
  IF fault = "read" THEN Unchanged("UpstreamCallFailed", <<>>)
  ELSE IF current_version(VersionIdsToStages) = token THEN Unchanged("ok", <<>>)
  ELSE
    LET call == [op |-> "update_secret_version_stage",
                 stage |-> "AWSCURRENT", moveTo |-> token, removeFrom |-> token]
        upd  == update_secret_version_stage("AWSCURRENT", token, token)
    IN IF fault = "write" \/ ~upd.ok
         THEN Unchanged("UpstreamCallFailed", <<call>>)
         ELSE Outcome(IF fault = "lost" THEN "UpstreamCallFailed" ELSE "ok",
                      upd.VersionIdsToStages, SecretString,
                      MasterUserPassword, <<call>>)

\* finish_secret with VersionStage="AWSPENDING": the wrong label is moved
finish_secret_wrongStage(token, fault) ==
  IF fault = "read" THEN Unchanged("UpstreamCallFailed", <<>>)
  ELSE IF current_version(VersionIdsToStages) = token THEN Unchanged("ok", <<>>)
  ELSE
    LET removeFrom == current_version(VersionIdsToStages)
        call == [op |-> "update_secret_version_stage",
                 stage |-> "AWSPENDING", moveTo |-> token,
                 removeFrom |-> removeFrom]
        upd  == update_secret_version_stage("AWSPENDING", token, removeFrom)
    IN IF fault = "write" \/ ~upd.ok
         THEN Unchanged("UpstreamCallFailed", <<call>>)
         ELSE Outcome(IF fault = "lost" THEN "UpstreamCallFailed" ELSE "ok",
                      upd.VersionIdsToStages, SecretString,
                      MasterUserPassword, <<call>>)

\* finish_secret refusing a version whose password the target does not use
finish_secret_pushedOnly(token, fault) ==
  IF fault = "read" THEN Unchanged("UpstreamCallFailed", <<>>)
  ELSE IF current_version(VersionIdsToStages) = token THEN Unchanged("ok", <<>>)
  ELSE IF SecretString[token] = NoValue
          \/ DictGet(json_loads(SecretString[token]),
                     "opensearch_master_password") # MasterUserPassword
    THEN Unchanged("UpstreamCallFailed", <<>>)
  ELSE
    LET removeFrom == current_version(VersionIdsToStages)
        call == [op |-> "update_secret_version_stage",
                 stage |-> "AWSCURRENT", moveTo |-> token,
                 removeFrom |-> removeFrom]
        upd  == update_secret_version_stage("AWSCURRENT", token, removeFrom)
    IN IF fault = "write" \/ ~upd.ok
         THEN Unchanged("UpstreamCallFailed", <<call>>)
         ELSE Outcome(IF fault = "lost" THEN "UpstreamCallFailed" ELSE "ok",
                      upd.VersionIdsToStages, SecretString,
                      MasterUserPassword, <<call>>)

\* finish_secret detaching AWSPENDING from the token in a second store call
finish_secret_dropsPending(token, fault) ==
  IF fault = "read" THEN Unchanged("UpstreamCallFailed", <<>>)
  ELSE IF current_version(VersionIdsToStages) = token THEN Unchanged("ok", <<>>)
  ELSE
    LET removeFrom == current_version(VersionIdsToStages)
        call == [op |-> "update_secret_version_stage",
                 stage |-> "AWSCURRENT", moveTo |-> token,
                 removeFrom |-> removeFrom]
        drop == [op |-> "update_secret_version_stage",
                 stage |-> "AWSPENDING", moveTo |-> None, removeFrom |-> token]
        upd  == update_secret_version_stage("AWSCURRENT", token, removeFrom)
    IN IF fault = "write" \/ ~upd.ok
         THEN Unchanged("UpstreamCallFailed", <<call>>)
         ELSE Outcome(IF fault = "lost" THEN "UpstreamCallFailed" ELSE "ok",
                      [upd.VersionIdsToStages EXCEPT ![token] = @ \ {"AWSPENDING"}],
                      SecretString, MasterUserPassword, <<call, drop>>)

finish_secret(token, fault) ==
  IF fault = "read" THEN Unchanged("UpstreamCallFailed", <<>>)
  ELSE IF current_version(VersionIdsToStages) = token THEN Unchanged("ok", <<>>)
  ELSE
    LET removeFrom == current_version(VersionIdsToStages)
        call == [op |-> "update_secret_version_stage",
                 stage |-> "AWSCURRENT", moveTo |-> token,
                 removeFrom |-> removeFrom]
        upd  == update_secret_version_stage("AWSCURRENT", token, removeFrom)
    IN IF fault = "write" \/ ~upd.ok
         THEN Unchanged("UpstreamCallFailed", <<call>>)
         ELSE Outcome(IF fault = "lost" THEN "UpstreamCallFailed" ELSE "ok",
                      upd.VersionIdsToStages, SecretString,
                      MasterUserPassword, <<call>>)

(* ----------------------------- the handler ----------------------------- *)
\* validate without the AWSCURRENT short-circuit
validate_noShortCircuit(enabled, versions, token) ==
  IF ~enabled THEN "RotationNotEnabled"
  ELSE IF token \notin DOMAIN versions THEN "UnknownVersion"
  ELSE IF "AWSPENDING" \notin versions[token] THEN "VersionNotPending"
  ELSE "dispatch"

\* validate without the RotationEnabled check
validate_enabledNotChecked(enabled, versions, token) ==
  IF token \notin DOMAIN versions THEN "UnknownVersion"
  ELSE IF "AWSCURRENT" \in versions[token] THEN "AlreadyCurrent"
  ELSE IF "AWSPENDING" \notin versions[token] THEN "VersionNotPending"
  ELSE "dispatch"

\* validate reading versions.get(token, []) instead of testing the key
validate_unknownAsEmpty(enabled, versions, token) ==
  IF ~enabled THEN "RotationNotEnabled"
  ELSE IF token \in DOMAIN versions /\ "AWSCURRENT" \in versions[token]
    THEN "AlreadyCurrent"
  ELSE IF token \notin DOMAIN versions \/ "AWSPENDING" \notin versions[token]
    THEN "VersionNotPending"
  ELSE "dispatch"

\* validate without the AWSPENDING check
validate_pendingNotChecked(enabled, versions, token) ==
  IF ~enabled THEN "RotationNotEnabled"
  ELSE IF token \notin DOMAIN versions THEN "UnknownVersion"
  ELSE IF "AWSCURRENT" \in versions[token] THEN "AlreadyCurrent"
  ELSE "dispatch"

\* validate looking the token up before reading RotationEnabled
validate_tokenFirst(enabled, versions, token) ==
  IF token \notin DOMAIN versions THEN "UnknownVersion"
  ELSE IF ~enabled THEN "RotationNotEnabled"
  ELSE IF "AWSCURRENT" \in versions[token] THEN "AlreadyCurrent"
  ELSE IF "AWSPENDING" \notin versions[token] THEN "VersionNotPending"
  ELSE "dispatch"

\* the preconditions of lambda_handler, in the order the code checks them
validate(enabled, versions, token) ==
  IF ~enabled THEN "RotationNotEnabled"
  ELSE IF token \notin DOMAIN versions THEN "UnknownVersion"
  ELSE IF "AWSCURRENT" \in versions[token] THEN "AlreadyCurrent"
  ELSE IF "AWSPENDING" \notin versions[token] THEN "VersionNotPending"
  ELSE "dispatch"

\* the chain ending in a plain else that runs finish_secret
dispatch_elseFinishes(step, token, fault, new_password) ==
  IF step = "createSecret" THEN create_secret(token, fault, new_password)
  ELSE IF step = "setSecret" THEN set_secret(token, fault)
  ELSE IF step = "testSecret" THEN test_secret(token, fault)
  ELSE finish_secret(token, fault)

\* the if/elif chain over the step name
dispatch(step, token, fault, new_password) ==
  IF step = "createSecret" THEN create_secret(token, fault, new_password)
  ELSE IF step = "setSecret" THEN set_secret(token, fault)
  ELSE IF step = "testSecret" THEN test_secret(token, fault)
  ELSE IF step = "finishSecret" THEN finish_secret(token, fault)
  ELSE Unchanged("InvalidStep", <<>>)

\* lambda_handler raising, instead of returning, when the token is AWSCURRENT
lambda_handler_currentRaises(step, token, fault, new_password) ==
  IF fault = "describe_secret" THEN Unchanged("UpstreamCallFailed", <<>>)
  ELSE
    LET verdict == validate(RotationEnabled, VersionIdsToStages, token) IN
    IF verdict = "dispatch" THEN dispatch(step, token, fault, new_password)
    ELSE Unchanged(verdict, <<>>)

\* lambda_handler validating the step name before the stages of the token
lambda_handler_stepFirst(step, token, fault, new_password) ==
  IF fault = "describe_secret" THEN Unchanged("UpstreamCallFailed", <<>>)
  ELSE
    LET verdict == validate(RotationEnabled, VersionIdsToStages, token) IN
    IF verdict \in {"AlreadyCurrent", "dispatch"} /\ step \notin Steps
      THEN Unchanged("InvalidStep", <<>>)
    ELSE IF verdict = "AlreadyCurrent" THEN Unchanged("ok", <<>>)
    ELSE IF verdict = "dispatch" THEN dispatch(step, token, fault, new_password)
    ELSE Unchanged(verdict, <<>>)

lambda_handler(step, token, fault, new_password) ==
  IF fault = "describe_secret" THEN Unchanged("UpstreamCallFailed", <<>>)
  ELSE
    LET verdict == validate(RotationEnabled, VersionIdsToStages, token) IN
    IF verdict = "AlreadyCurrent" THEN Unchanged("ok", <<>>)
    ELSE IF verdict = "dispatch" THEN dispatch(step, token, fault, new_password)
    ELSE Unchanged(verdict, <<>>)

(* ------------------------------- states -------------------------------- *)
AtMostOne(versions, stage) == Cardinality(Holders(versions, stage)) <= 1

\* the stage maps a secret can have: every listed version carries a label,
\* at most one version AWSCURRENT and at most one AWSPENDING
StageSets == {{"AWSCURRENT"}, {"AWSPENDING"}, {"AWSCURRENT", "AWSPENDING"},
              {"AWSPREVIOUS"}}
StageMaps ==
  {m \in UNION {[D -> StageSets] : D \in SUBSET VersionIds} :
     AtMostOne(m, "AWSCURRENT") /\ AtMostOne(m, "AWSPENDING")}

\* the value a version starts with: the secret in use carries the first
\* password, a version staged by an earlier rotation the second
InitialValue(v) ==
  <<<<"opensearch_master_username", "admin">>,
    <<"opensearch_master_password", IF v = "V0" THEN Password(1) ELSE Password(2)>>>>

\* a version has a value, except that a version that is only AWSPENDING may
\* still lack one (the token is staged before createSecret writes its value)
ValuesFor(m) ==
  {s \in [VersionIds -> {InitialValue(v) : v \in VersionIds} \cup {NoValue}] :
     \A v \in VersionIds :
       /\ v \notin DOMAIN m => s[v] = NoValue
       /\ v \in DOMAIN m => s[v] \in {InitialValue(v), NoValue}
       /\ (v \in DOMAIN m /\ s[v] = NoValue) => m[v] = {"AWSPENDING"}}

NoEvent == [Step |-> "none", ClientRequestToken |-> None]
NoPrev  == [Step |-> "none", ClientRequestToken |-> None, result |-> "none"]

NoPassword == "unused"

\* no invocation has run yet
NotInvoked ==
  /\ event = NoEvent
  /\ upstream = "none"
  /\ result = "none"
  /\ calls = <<>>
  /\ generated = NoPassword
  /\ notified = <<>>

\* no orchestrator is driving the protocol
Unsupervised ==
  /\ prev = NoPrev
  /\ phase = 0
  /\ faultsLeft = 0
  /\ tick = FALSE

\* no invocations are interleaved
Invocations == 1 .. NumInvocations
NoLocal     == [current_secret |-> NoValue, new_password |-> NoPassword]

Sequential ==
  /\ pc = [i \in Invocations |-> "none"]
  /\ local = [i \in Invocations |-> NoLocal]

\* the EIP rotator has not run and has no gateway to work on
NoResponse == [returned |-> FALSE, statusCode |-> 0, body |-> "none"]

NoEip ==
  /\ deployment = "handlers"
  /\ NatGateways = <<>>
  /\ Addresses = {}
  /\ allocations = 0
  /\ eipFaults = {}
  /\ ec2calls = <<>>
  /\ published = <<>>
  /\ response = NoResponse

\* the generator is not called on its own
NoLength == -1
NoDraw   == [length |-> NoLength, first |-> <<>>, fill |-> <<>>, shuffle |-> 0]

NotGenerating ==
  /\ drawn = NoDraw
  /\ returned = NoPassword

\* nothing is logged with data
NoData      == [kind |-> "none"]
NotScrubbed == [kind |-> "unscrubbed"]

NotLogging ==
  /\ log_service = "none"
  /\ log_data = NoData
  /\ scrubbed_data = NotScrubbed

Init ==
  /\ RotationEnabled \in BOOLEAN
  /\ VersionIdsToStages \in StageMaps
  /\ SecretString \in ValuesFor(VersionIdsToStages)
  /\ MasterUserPassword \in Passwords
  /\ NotInvoked
  /\ Unsupervised
  /\ Sequential
  /\ NoEip
  /\ NotGenerating
  /\ NotLogging

\* what lambda_handler publishes to a notification sink: its except block
\* logs the failure and re-raises it, create_error_response logs and raises,
\* and neither path (nor the success path) holds a publish call
notifications(res) == <<>>

\* the password generate_complex_password() returned to create_secret, which
\* calls it between its read and its put_secret_value
generated_password(made, new_password) ==
  IF made # <<>> /\ made[1].op = "put_secret_value" THEN new_password
  ELSE NoPassword

\* one invocation of the handler, run to its return or its raise
Invoke(step, token, fault, new_password) ==
  \E out \in {lambda_handler(step, token, fault, new_password)} :
  /\ VersionIdsToStages' = out.VersionIdsToStages
  /\ SecretString' = out.SecretString
  /\ MasterUserPassword' = out.MasterUserPassword
  /\ event' = [Step |-> step, ClientRequestToken |-> token]
  /\ upstream' = fault
  /\ result' = out.result
  /\ calls' = out.calls
  /\ generated' = generated_password(out.calls, new_password)
  /\ notified' = notifications(out.result)
  /\ UNCHANGED RotationEnabled

\* (the generated password is drawn only where createSecret draws it)
Drawn(step) == IF step = "createSecret" THEN Passwords ELSE {NoPassword}

\* the orchestrator is external: any step name, any token, in any order
Rotate ==
  /\ \E step \in StepNames, token \in VersionIds, fault \in Faults :
       \E new_password \in Drawn(step) :
         Invoke(step, token, fault, new_password)
  /\ UNCHANGED <<supervisorVars, concurrentVars, eipVars, generatorVars, loggerVars>>

Next == Rotate

Spec == Init /\ [][Next]_vars

\* the token of the rotation under way
Token == "T1"

(* --------------------------- payload variety --------------------------- *)
\* The secret in use V0 and the staged token T1, with payloads that carry,
\* carry empty or lack the username and the password member.
Absent == "absent"

Member(key, value) == IF value = Absent THEN <<>> ELSE <<<<key, value>>>>

Payload(username, password) ==
  <<<<"opensearch_endpoint", "search.internal">>>>
    \o Member("opensearch_master_username", username)
    \o Member("opensearch_master_password", password)

Usernames == {"admin", "", Absent}

InitPayloads ==
  /\ RotationEnabled = TRUE
  /\ VersionIdsToStages = [v \in {"V0", Token} |->
                             IF v = "V0" THEN {"AWSCURRENT"} ELSE {"AWSPENDING"}]
  /\ \E cu \in {"admin", Absent}, cp \in {Password(1), Absent},
        pu \in Usernames, pp \in Passwords \cup {"", Absent},
        staged \in BOOLEAN :
        SecretString = [v \in VersionIds |->
                          IF v = "V0" THEN Payload(cu, cp)
                          ELSE IF v = Token /\ staged THEN Payload(pu, pp)
                          ELSE NoValue]
  /\ MasterUserPassword \in Passwords
  /\ NotInvoked
  /\ Unsupervised
  /\ Sequential
  /\ NoEip
  /\ NotGenerating
  /\ NotLogging

SpecPayloads == InitPayloads /\ [][Next]_vars

(* ---------------------------- supervised run --------------------------- *)
\* The orchestrator drives token T1 through the protocol: it invokes the step
\* it is at, moves on when the invocation returns, re-invokes it when the
\* invocation raises, and may deliver the step it last completed once more.
Done  == Len(Protocol) + 1

InitSupervised ==
  /\ RotationEnabled = TRUE
  /\ \E m \in StageMaps :
       /\ {"V0", Token} \subseteq DOMAIN m
       /\ m["V0"] = {"AWSCURRENT"} /\ m[Token] = {"AWSPENDING"}
       /\ VersionIdsToStages = m
  /\ SecretString \in ValuesFor(VersionIdsToStages)
  /\ SecretString[Token] = NoValue
  /\ MasterUserPassword = DictGet(json_loads(SecretString["V0"]),
                                  "opensearch_master_password")
  /\ NotInvoked
  /\ prev = NoPrev
  /\ phase = 1
  /\ faultsLeft = MaxFaults
  /\ tick = FALSE
  /\ Sequential
  /\ NoEip
  /\ NotGenerating
  /\ NotLogging

Injected == IF faultsLeft > 0 THEN Faults ELSE {"none"}

Observe(fault) ==
  /\ prev' = [Step |-> event.Step,
              ClientRequestToken |-> event.ClientRequestToken,
              result |-> result]
  /\ faultsLeft' = IF fault = "none" THEN faultsLeft ELSE faultsLeft - 1
  /\ tick' = ~tick
  /\ UNCHANGED <<concurrentVars, eipVars, generatorVars, loggerVars>>

Supervise ==
  /\ phase < Done
  /\ \E fault \in Injected : \E new_password \in Drawn(Protocol[phase]) :
       /\ Invoke(Protocol[phase], Token, fault, new_password)
       /\ Observe(fault)
  /\ phase' = IF result' = "ok" THEN phase + 1 ELSE phase

Redeliver ==
  /\ phase > 1
  /\ \E fault \in Injected : \E new_password \in Drawn(Protocol[phase - 1]) :
       /\ Invoke(Protocol[phase - 1], Token, fault, new_password)
       /\ Observe(fault)
  /\ UNCHANGED phase

NextSupervised == Supervise \/ Redeliver

SpecSupervised ==
  InitSupervised /\ [][NextSupervised]_vars /\ WF_vars(Supervise)

(* ----------------------- concurrent createSecret ----------------------- *)
\* Several createSecret invocations for the same token, each running
\* lambda_handler and create_secret one store call at a time: describe_secret,
\* get_secret_value of AWSCURRENT, put_secret_value.
InitConcurrent ==
  /\ RotationEnabled \in BOOLEAN
  /\ VersionIdsToStages = [v \in {"V0", Token} |->
                             IF v = "V0" THEN {"AWSCURRENT"} ELSE {"AWSPENDING"}]
  /\ \E cu \in {"admin", Absent}, cp \in {Password(1), Absent},
        staged \in {NoValue, Payload("admin", Password(2))} :
        SecretString = [v \in VersionIds |->
                          IF v = "V0" THEN Payload(cu, cp)
                          ELSE IF v = Token THEN staged
                          ELSE NoValue]
  /\ MasterUserPassword = Password(1)
  /\ NotInvoked
  /\ Unsupervised
  /\ pc = [i \in Invocations |-> "describe_secret"]
  /\ local = [i \in Invocations |-> NoLocal]
  /\ NoEip
  /\ NotGenerating
  /\ NotLogging

\* describe_secret and the preconditions of lambda_handler
Describe(i) ==
  /\ pc[i] = "describe_secret"
  /\ LET verdict == validate(RotationEnabled, VersionIdsToStages, Token) IN
       pc' = [pc EXCEPT ![i] = IF verdict = "dispatch" THEN "get_secret_value"
                               ELSE IF verdict = "AlreadyCurrent" THEN "returned"
                               ELSE "raised"]
  /\ UNCHANGED <<rotatorVars, supervisorVars, eipVars, generatorVars, loggerVars, local>>

\* get_secret_dict of AWSCURRENT, then generate_complex_password()
Read(i) ==
  /\ pc[i] = "get_secret_value"
  /\ LET current_secret == get_secret_dict("AWSCURRENT", None, "none") IN
       IF current_secret = NoValue
         THEN pc' = [pc EXCEPT ![i] = "raised"] /\ UNCHANGED local
         ELSE /\ pc' = [pc EXCEPT ![i] = "put_secret_value"]
              /\ \E new_password \in Passwords :
                   local' = [local EXCEPT ![i] =
                               [current_secret |-> current_secret,
                                new_password |-> new_password]]
  /\ UNCHANGED <<rotatorVars, supervisorVars, eipVars, generatorVars, loggerVars>>

\* the version id invocation i would name if each call named one of its own
OwnToken(i) == VersionOrder[(i % Len(VersionOrder)) + 1]

\* the put_secret_value request naming a version id of the invocation's own
put_request_ownToken(i) ==
  [op |-> "put_secret_value", token |-> OwnToken(i),
   value |-> json_dumps(DictSet(local[i].current_secret,
                                "opensearch_master_password",
                                local[i].new_password)),
   stages |-> {"AWSPENDING"}]

\* the put_secret_value request of create_secret
put_request(i) ==
  [op |-> "put_secret_value", token |-> Token,
   value |-> json_dumps(DictSet(local[i].current_secret,
                                "opensearch_master_password",
                                local[i].new_password)),
   stages |-> {"AWSPENDING"}]

\* put_secret_value: the store applies the write or rejects it
Put(i) ==
  /\ pc[i] = "put_secret_value"
  /\ LET call == put_request(i)
         put  == put_secret_value(call.token, call.value, call.stages)
     IN /\ pc' = [pc EXCEPT ![i] = IF put.ok THEN "returned" ELSE "raised"]
        /\ VersionIdsToStages' = put.VersionIdsToStages
        /\ SecretString' = put.SecretString
  /\ UNCHANGED <<RotationEnabled, MasterUserPassword, event, upstream, result,
                 calls, generated, notified, supervisorVars, eipVars,
                 generatorVars, loggerVars, local>>

NextConcurrent == \E i \in Invocations : Describe(i) \/ Read(i) \/ Put(i)

SpecConcurrent == InitConcurrent /\ [][NextConcurrent]_vars

(* ----------------------- NAT gateway EIP rotation ---------------------- *)
\* The three deployed forms of the EIP rotator:
\*   handlers         backend/src/handlers/rotate-nat-gateway-eip/index.py,
\*                    keeps the old address, redacts allocation ids
\*   src_boilerplate  backend/src_boilerplate/operations/rotate_eip, keeps the
\*                    old address, reports allocation ids
\*   infrastructure   infrastructure/modules/app/src/lambda/rotate_nat_gateway_eip,
\*                    releases the old address, reports allocation ids
Deployments == {"handlers", "src_boilerplate", "infrastructure"}

\* the calls of one invocation that can fail
EipCalls == {"describe_nat_gateways", "allocate_address", "associate_address",
             "release_address", "publish_success", "publish_failure"}

\* the invocation ended by an exception leaving lambda_handler
Raised == [returned |-> FALSE, statusCode |-> 0, body |-> "raised"]

\* allocate_address(Domain='vpc'): a new allocation and its public address
allocate_address(n) ==
  [AllocationId |-> "eipalloc-" \o ToString(n + 1),
   PublicIp |-> "ip-" \o ToString(n + 1)]

\* associate_address(AllocationId, NetworkInterfaceId): the interface's
\* binding is superseded by the given allocation
associate_address(gateways, allocation_id, network_interface_id) ==
  [g \in DOMAIN gateways |->
     [NatGatewayId |-> gateways[g].NatGatewayId,
      NatGatewayAddresses |->
        [a \in DOMAIN gateways[g].NatGatewayAddresses |->
           LET address == gateways[g].NatGatewayAddresses[a] IN
           IF address.NetworkInterfaceId = network_interface_id
             THEN [address EXCEPT !.AllocationId = allocation_id]
             ELSE address]]]

\* release_address(AllocationId): the allocation ceases to exist
release_address(addresses, allocation_id) == addresses \ {allocation_id}

World(gateways, addresses, n) ==
  [NatGateways |-> gateways, Addresses |-> addresses, allocations |-> n]

\* the text of a message or body: the error it names, the identifiers that
\* appear in it, and whether it carries the ACTION REQUIRED paragraph
Text(error, mentions, action_required) ==
  [error |-> error, mentions |-> mentions, actionRequired |-> action_required]

Publish(subject, message, faults, call) ==
  [Subject |-> subject, Message |-> message, delivered |-> call \notin faults]

\* the except block: the error message, the guidance when the old allocation
\* was identified, the failure notification and the error response
eip_except(form, faults, error, named, old_allocation_id, world, made, pubs) ==
  LET error_message ==
        Text(error,
             named \cup (IF old_allocation_id # None /\ form # "handlers"
                           THEN {old_allocation_id} ELSE {}),
             old_allocation_id # None)
      publish == Publish("FAILED: NAT Gateway EIP Rotation", error_message,
                         faults, "publish_failure")
  IN [world |-> world, ec2calls |-> made, published |-> Append(pubs, publish),
      response |-> IF "publish_failure" \in faults THEN Raised
                   ELSE [returned |-> TRUE, statusCode |-> 500,
                         body |-> error_message]]

\* the end of the try block: the success notification and the response
eip_success(form, faults, nat_gateway_id, new_eip, old_allocation_id, world, made) ==
  LET success_message ==
        Text("none",
             {nat_gateway_id, new_eip.PublicIp}
               \cup (IF form = "handlers" THEN {}
                     ELSE {new_eip.AllocationId, old_allocation_id}),
             FALSE)
      publish == Publish("SUCCESS: NAT Gateway EIP Rotated", success_message,
                         faults, "publish_success")
  IN IF "publish_success" \in faults
       THEN eip_except(form, faults, "UpstreamCallFailed", {},
                       old_allocation_id, world, made, <<publish>>)
       ELSE [world |-> world, ec2calls |-> made, published |-> <<publish>>,
             response |-> [returned |-> TRUE, statusCode |-> 200,
                           body |-> IF form = "handlers"
                                      THEN Text("none", {nat_gateway_id,
                                                         new_eip.PublicIp}, FALSE)
                                      ELSE success_message]]

\* the associate_address request naming the allocation already bound
associate_request_oldAllocation(new_eip, old_association) ==
  [op |-> "associate_address",
   AllocationId |-> old_association.AllocationId,
   NetworkInterfaceId |-> old_association.NetworkInterfaceId]

\* the associate_address request: the new allocation, the old interface
associate_request(new_eip, old_association) ==
  [op |-> "associate_address",
   AllocationId |-> new_eip.AllocationId,
   NetworkInterfaceId |-> old_association.NetworkInterfaceId]

\* every form releasing the old address
releases_always(form) == TRUE

\* whether the deployed form releases the old address after the association
releases(form) == form = "infrastructure"

\* the release_address request naming the allocation just bound
release_request_newAllocation(new_eip, old_association) ==
  [op |-> "release_address", AllocationId |-> new_eip.AllocationId,
   NetworkInterfaceId |-> None]

\* the release_address request: the old allocation
release_request(new_eip, old_association) ==
  [op |-> "release_address", AllocationId |-> old_association.AllocationId,
   NetworkInterfaceId |-> None]

\* the rotation releasing the new address again when associate_address fails
eip_replace_compensates(form, faults, nat_gateway) ==
      LET world == World(NatGateways, Addresses, allocations)
          nat_gateway_id == nat_gateway.NatGatewayId
          old_association == nat_gateway.NatGatewayAddresses[1]
          network_interface_id == old_association.NetworkInterfaceId
          old_allocation_id == old_association.AllocationId
          new_eip == allocate_address(allocations)
          allocate == [op |-> "allocate_address",
                       AllocationId |-> None, NetworkInterfaceId |-> None]
          associate == associate_request(new_eip, old_association)
          release == release_request(new_eip, old_association)
          allocated == World(NatGateways,
                             Addresses \cup {new_eip.AllocationId},
                             allocations + 1)
          associated == World(associate_address(NatGateways,
                                                associate.AllocationId,
                                                associate.NetworkInterfaceId),
                              allocated.Addresses, allocated.allocations)
          released == World(associated.NatGateways,
                            release_address(associated.Addresses,
                                            release.AllocationId),
                            associated.allocations)
      IN
      IF "allocate_address" \in faults
        THEN eip_except(form, faults, "UpstreamCallFailed", {},
                        old_allocation_id, world, <<allocate>>, <<>>)
      ELSE IF "associate_address" \in faults
        THEN eip_except(form, faults, "UpstreamCallFailed", {},
                        old_allocation_id,
                        World(NatGateways, Addresses, allocations + 1),
                        <<allocate, associate,
                          [op |-> "release_address",
                           AllocationId |-> new_eip.AllocationId,
                           NetworkInterfaceId |-> None]>>, <<>>)
      ELSE IF ~releases(form)
        THEN eip_success(form, faults, nat_gateway_id, new_eip,
                         old_allocation_id, associated, <<allocate, associate>>)
      ELSE IF "release_address" \in faults
        THEN eip_except(form, faults, "UpstreamCallFailed", {},
                        old_allocation_id, associated,
                        <<allocate, associate, release>>, <<>>)
      ELSE eip_success(form, faults, nat_gateway_id, new_eip,
                       old_allocation_id, released,
                       <<allocate, associate, release>>)

\* the try block of lambda_handler from the old association it identified:
\* allocate, associate, dispose of the old address, report
eip_replace(form, faults, nat_gateway) ==
      LET world == World(NatGateways, Addresses, allocations)
          nat_gateway_id == nat_gateway.NatGatewayId
          old_association == nat_gateway.NatGatewayAddresses[1]
          network_interface_id == old_association.NetworkInterfaceId
          old_allocation_id == old_association.AllocationId
          new_eip == allocate_address(allocations)
          allocate == [op |-> "allocate_address",
                       AllocationId |-> None, NetworkInterfaceId |-> None]
          associate == associate_request(new_eip, old_association)
          release == release_request(new_eip, old_association)
          allocated == World(NatGateways,
                             Addresses \cup {new_eip.AllocationId},
                             allocations + 1)
          associated == World(associate_address(NatGateways,
                                                associate.AllocationId,
                                                associate.NetworkInterfaceId),
                              allocated.Addresses, allocated.allocations)
          released == World(associated.NatGateways,
                            release_address(associated.Addresses,
                                            release.AllocationId),
                            associated.allocations)
      IN
      IF "allocate_address" \in faults
        THEN eip_except(form, faults, "UpstreamCallFailed", {},
                        old_allocation_id, world, <<allocate>>, <<>>)
      ELSE IF "associate_address" \in faults
        THEN eip_except(form, faults, "UpstreamCallFailed", {},
                        old_allocation_id, allocated,
                        <<allocate, associate>>, <<>>)
      ELSE IF ~releases(form)
        THEN eip_success(form, faults, nat_gateway_id, new_eip,
                         old_allocation_id, associated, <<allocate, associate>>)
      ELSE IF "release_address" \in faults
        THEN eip_except(form, faults, "UpstreamCallFailed", {},
                        old_allocation_id, associated,
                        <<allocate, associate, release>>, <<>>)
      ELSE eip_success(form, faults, nat_gateway_id, new_eip,
                       old_allocation_id, released,
                       <<allocate, associate, release>>)

\* the try block allocating the new address before it looks at the gateway's
\* addresses
eip_rotate_allocatesFirst(form, faults, nat_gateway) ==
  IF nat_gateway.NatGatewayAddresses = <<>>
    THEN IF "allocate_address" \in faults
      THEN eip_except(form, faults, "UpstreamCallFailed", {}, None,
                      World(NatGateways, Addresses, allocations),
                      <<[op |-> "allocate_address", AllocationId |-> None,
                         NetworkInterfaceId |-> None]>>, <<>>)
      ELSE eip_except(form, faults, "NoExistingAssociation",
                      {nat_gateway.NatGatewayId}, None,
                      World(NatGateways,
                            Addresses \cup {allocate_address(allocations).AllocationId},
                            allocations + 1),
                      <<[op |-> "allocate_address", AllocationId |-> None,
                         NetworkInterfaceId |-> None]>>, <<>>)
  ELSE eip_replace(form, faults, nat_gateway)

\* the try block of lambda_handler from the gateway it took on
eip_rotate(form, faults, nat_gateway) ==
  IF nat_gateway.NatGatewayAddresses = <<>>
    THEN eip_except(form, faults, "NoExistingAssociation",
                    {nat_gateway.NatGatewayId}, None,
                    World(NatGateways, Addresses, allocations), <<>>, <<>>)
  ELSE eip_replace(form, faults, nat_gateway)

\* lambda_handler indexing the list of gateways without testing it: on an
\* empty list the index raises and the except block reports that exception
eip_lambda_handler_unchecked(form, faults) ==
  LET world == World(NatGateways, Addresses, allocations) IN
  IF "describe_nat_gateways" \in faults \/ NatGateways = <<>>
    THEN eip_except(form, faults, "UpstreamCallFailed", {}, None, world, <<>>, <<>>)
  ELSE eip_rotate(form, faults, NatGateways[1])

\* lambda_handler of the EIP rotator, run to its return or its raise
eip_lambda_handler(form, faults) ==
  LET world == World(NatGateways, Addresses, allocations) IN
  IF "describe_nat_gateways" \in faults
    THEN eip_except(form, faults, "UpstreamCallFailed", {}, None, world, <<>>, <<>>)
  ELSE IF NatGateways = <<>>
    THEN eip_except(form, faults, "GatewayNotFound", {}, None, world, <<>>, <<>>)
  ELSE eip_rotate(form, faults, NatGateways[1])

\* the gateways the tag filter can match before the first rotation: none, one
\* without an address, one with one or two addresses, two gateways
Address(a) == [AllocationId |-> "eipalloc-" \o a, NetworkInterfaceId |-> "eni-" \o a]
Gateway(id, addresses) == [NatGatewayId |-> id, NatGatewayAddresses |-> addresses]

InitialGateways ==
  {<<>>,
   <<Gateway("nat-a", <<>>)>>,
   <<Gateway("nat-a", <<Address("a")>>)>>,
   <<Gateway("nat-a", <<Address("a"), Address("b")>>)>>,
   <<Gateway("nat-a", <<Address("a")>>), Gateway("nat-b", <<Address("b")>>)>>,
   <<Gateway("nat-b", <<>>), Gateway("nat-a", <<Address("a")>>)>>}

Bound(gateways) ==
  UNION {{gateways[g].NatGatewayAddresses[a].AllocationId :
            a \in DOMAIN gateways[g].NatGatewayAddresses} :
         g \in DOMAIN gateways}

\* the credential rotator is left alone
NoRotation ==
  /\ RotationEnabled = TRUE
  /\ VersionIdsToStages = [v \in {"V0", Token} |->
                             IF v = "V0" THEN {"AWSCURRENT"} ELSE {"AWSPENDING"}]
  /\ SecretString = [v \in VersionIds |->
                       IF v = "V0" THEN InitialValue(v) ELSE NoValue]
  /\ MasterUserPassword = Password(1)
  /\ NotInvoked
  /\ Unsupervised
  /\ Sequential

EipNotInvoked ==
  /\ allocations = 0
  /\ eipFaults = {}
  /\ ec2calls = <<>>
  /\ published = <<>>
  /\ response = NoResponse

InitEip ==
  /\ NoRotation
  /\ deployment \in Deployments
  /\ NatGateways \in InitialGateways
  /\ Addresses = Bound(NatGateways)
  /\ EipNotInvoked
  /\ NotGenerating
  /\ NotLogging

FaultSets == {faults \in SUBSET EipCalls : Cardinality(faults) <= MaxFaults}

\* the calls an invocation got to make
Attempted(out) ==
  {"describe_nat_gateways"}
    \cup {out.ec2calls[i].op : i \in DOMAIN out.ec2calls}
    \cup {IF out.published[i].Subject = "SUCCESS: NAT Gateway EIP Rotated"
            THEN "publish_success" ELSE "publish_failure" :
          i \in DOMAIN out.published}

\* one scheduled invocation of the EIP rotator
RotateEip ==
  /\ allocations < MaxAllocations
  /\ \E faults \in FaultSets :
       \E out \in {eip_lambda_handler(deployment, faults)} :
         /\ NatGateways' = out.world.NatGateways
         /\ Addresses' = out.world.Addresses
         /\ allocations' = out.world.allocations
         /\ eipFaults' = faults \cap Attempted(out)
         /\ ec2calls' = out.ec2calls
         /\ published' = out.published
         /\ response' = out.response
  /\ UNCHANGED <<deployment, rotatorVars, supervisorVars, concurrentVars,
                 generatorVars, loggerVars>>

NextEip == RotateEip

SpecEip == InitEip /\ [][NextEip]_vars

(* --------------------------- both components -------------------------- *)
\* The two handlers deployed side by side: the orchestrator invokes the
\* credential rotator for the token under way, the schedule invokes the EIP
\* rotator, in the form that releases the old address, for a gateway with
\* one address.
InitBoth ==
  /\ NoRotation
  /\ deployment = "infrastructure"
  /\ NatGateways = <<Gateway("nat-a", <<Address("a")>>)>>
  /\ Addresses = Bound(NatGateways)
  /\ EipNotInvoked
  /\ NotGenerating
  /\ NotLogging

RotateToken ==
  /\ \E step \in StepNames, fault \in Faults :
       \E new_password \in Drawn(step) :
         Invoke(step, Token, fault, new_password)
  /\ UNCHANGED <<supervisorVars, concurrentVars, eipVars, generatorVars, loggerVars>>

NextBoth == RotateToken \/ RotateEip

SpecBoth == InitBoth /\ [][NextBoth]_vars

(* ------------------------------- claims -------------------------------- *)
\* the step from this state to the next is an invocation that leaves the store
\* and the target as they were and made no store write and no target call
Quiet ==
  /\ calls' = <<>>
  /\ VersionIdsToStages' = VersionIdsToStages
  /\ SecretString' = SecretString
  /\ MasterUserPassword' = MasterUserPassword

\* the request of the invocation that leads to the next state
Requested    == event'.ClientRequestToken
Described    == upstream' # "describe_secret"
StagesOf(v)  == IF v \in DOMAIN VersionIdsToStages THEN VersionIdsToStages[v] ELSE {}
PendingOnly(v) == "AWSPENDING" \in StagesOf(v) /\ "AWSCURRENT" \notin StagesOf(v)

\* C1: from a secret with at most one AWSCURRENT and at most one AWSPENDING
\* version, any sequence of invocations (any step or an invalid one, any token,
\* failing at any upstream call) leaves at most one version AWSCURRENT and at
\* most one AWSPENDING.
C1_AtMostOneCurrentAndPending ==
  /\ AtMostOne(VersionIdsToStages, "AWSCURRENT")
  /\ AtMostOne(VersionIdsToStages, "AWSPENDING")

\* finishSecret has moved AWSCURRENT from its holder to the token while the
\* token is the AWSPENDING version
C1_Witness ==
  /\ event.Step = "finishSecret" /\ result = "ok" /\ Len(calls) = 1
  /\ calls[1].removeFrom # None
  /\ Holders(VersionIdsToStages, "AWSCURRENT") = {event.ClientRequestToken}
  /\ Holders(VersionIdsToStages, "AWSPENDING") = {event.ClientRequestToken}

\* C2: no step, finishSecret included, whether it fails or is re-invoked, takes
\* a secret with exactly one AWSCURRENT version to a state with none or two.
C2_ExactlyOneCurrentKept ==
  [][Cardinality(Holders(VersionIdsToStages, "AWSCURRENT")) = 1
       => Cardinality(Holders(VersionIdsToStages, "AWSCURRENT")') = 1]_vars

\* finishSecret raised after its update_secret_version_stage took effect
C2_Witness ==
  /\ event.Step = "finishSecret" /\ upstream = "lost"
  /\ result = "UpstreamCallFailed" /\ Len(calls) = 1
  /\ calls[1].removeFrom # None
  /\ Holders(VersionIdsToStages, "AWSCURRENT") = {event.ClientRequestToken}

\* C3 as stated: whenever the requested token's version holds AWSCURRENT, each
\* of the four steps returns success with no store write and no target call.
C3_CurrentAlwaysNoOp ==
  [][(/\ Described /\ event'.Step \in Steps
      /\ "AWSCURRENT" \in StagesOf(Requested))
       => (result' = "ok" /\ Quiet)]_vars

\* C3 amended: on a rotation-enabled secret, whenever the requested token's
\* version holds AWSCURRENT, each of the four steps returns success with no
\* store write and no target call.
C3_CurrentNoOpWhenEnabled ==
  [][(/\ Described /\ event'.Step \in Steps /\ RotationEnabled
      /\ "AWSCURRENT" \in StagesOf(Requested))
       => (result' = "ok" /\ Quiet)]_vars

\* createSecret returned for a token that is AWSCURRENT without writing
C3_Witness ==
  /\ RotationEnabled /\ event.Step = "createSecret" /\ upstream = "none"
  /\ result = "ok" /\ calls = <<>>
  /\ "AWSCURRENT" \in StagesOf(event.ClientRequestToken)

\* C4: after a finishSecret that returned, the same finishSecret invoked again
\* returns and leaves the version-to-stages mapping as the first left it.
C4_FinishTwice ==
  [][(/\ event.Step = "finishSecret" /\ result = "ok"
      /\ event' = event /\ Described)
       => (result' = "ok" /\ VersionIdsToStages' = VersionIdsToStages)]_vars

\* two finishSecret invocations in a row for the token, both returned
C4_Witness ==
  /\ prev.Step = "finishSecret" /\ prev.result = "ok"
  /\ prev.ClientRequestToken = event.ClientRequestToken
  /\ event.Step = "finishSecret" /\ result = "ok"
  /\ "AWSCURRENT" \in StagesOf(event.ClientRequestToken)

\* C5: finishSecret for a token that is AWSPENDING and not AWSCURRENT on a
\* rotation-enabled secret, its store call succeeding: afterwards the token is
\* AWSCURRENT, the version that was AWSCURRENT is not, and no version or value
\* is gone.
C5_FinishPromotes ==
  [][(/\ event'.Step = "finishSecret" /\ upstream' \in {"none", "lost"}
      /\ RotationEnabled /\ PendingOnly(Requested))
       => (/\ "AWSCURRENT" \in VersionIdsToStages'[Requested]
           /\ \A v \in Holders(VersionIdsToStages, "AWSCURRENT") :
                "AWSCURRENT" \notin VersionIdsToStages'[v]
           /\ DOMAIN VersionIdsToStages' = DOMAIN VersionIdsToStages
           /\ SecretString' = SecretString)]_vars

\* finishSecret returned having demoted another version
C5_Witness ==
  /\ event.Step = "finishSecret" /\ upstream = "none" /\ result = "ok"
  /\ Len(calls) = 1 /\ calls[1].removeFrom \in DOMAIN VersionIdsToStages
  /\ "AWSCURRENT" \notin VersionIdsToStages[calls[1].removeFrom]
  /\ "AWSCURRENT" \in VersionIdsToStages[event.ClientRequestToken]

\* C6: createSecret re-invoked for a token whose AWSPENDING version already has
\* a value returns success and leaves that value as it is.
C6_CreateIdempotent ==
  [][(/\ event'.Step = "createSecret" /\ upstream' = "none"
      /\ RotationEnabled /\ PendingOnly(Requested)
      /\ SecretString[Requested] # NoValue
      /\ get_secret_value("AWSCURRENT", None) # NoValue)
       => (result' = "ok" /\ SecretString'[Requested] = SecretString[Requested])]_vars

\* C7: an orchestrator that re-invokes every step that raised, with upstream
\* calls that fail only finitely often, eventually completes the four steps
\* with the token AWSCURRENT.
C7_RotationCompletes ==
  <>(phase = Done /\ "AWSCURRENT" \in StagesOf(Token))

\* C8: on a secret whose RotationEnabled is false every invocation fails with
\* RotationNotEnabled, writes nothing and calls the target never.
C8_RotationNotEnabled ==
  [][(Described /\ ~RotationEnabled)
       => (result' = "RotationNotEnabled" /\ Quiet)]_vars

\* finishSecret refused for an AWSPENDING token of a secret not enabled
C8_Witness ==
  /\ ~RotationEnabled /\ result = "RotationNotEnabled"
  /\ event.Step = "finishSecret" /\ calls = <<>>
  /\ PendingOnly(event.ClientRequestToken)

\* C9: on a rotation-enabled secret an invocation whose token is not a key of
\* the version-to-stages mapping fails with UnknownVersion, whatever the step,
\* and writes nothing.
C9_UnknownVersion ==
  [][(Described /\ RotationEnabled /\ Requested \notin DOMAIN VersionIdsToStages)
       => (result' = "UnknownVersion" /\ Quiet)]_vars

\* an invalid step refused for a token the secret does not list
C9_Witness ==
  /\ RotationEnabled /\ result = "UnknownVersion" /\ calls = <<>>
  /\ event.Step = "invalidStep"
  /\ event.ClientRequestToken \notin DOMAIN VersionIdsToStages

\* C10: on a rotation-enabled secret an invocation whose token is listed with
\* neither AWSCURRENT nor AWSPENDING fails with VersionNotPending, writes
\* nothing and calls the target never.
C10_VersionNotPending ==
  [][(/\ Described /\ RotationEnabled
      /\ Requested \in DOMAIN VersionIdsToStages
      /\ VersionIdsToStages[Requested] \cap {"AWSCURRENT", "AWSPENDING"} = {})
       => (result' = "VersionNotPending" /\ Quiet)]_vars

\* setSecret refused for a token that is only AWSPREVIOUS
C10_Witness ==
  /\ RotationEnabled /\ result = "VersionNotPending" /\ calls = <<>>
  /\ event.Step = "setSecret"
  /\ StagesOf(event.ClientRequestToken) = {"AWSPREVIOUS"}

\* C11: with rotation enabled and a token that is AWSPENDING and not
\* AWSCURRENT, a request whose step is none of the four step names fails with
\* InvalidStep, changes nothing in the store and calls neither store write
\* nor target.
C11_InvalidStep ==
  [][(Described /\ RotationEnabled /\ PendingOnly(Requested)
        /\ event'.Step \notin Steps)
       => (result' = "InvalidStep" /\ Quiet)]_vars

C11_Witness ==
  /\ event.Step = "invalidStep" /\ result = "InvalidStep"
  /\ RotationEnabled
  /\ "AWSPENDING" \in StagesOf(event.ClientRequestToken)
  /\ "AWSCURRENT" \in StagesOf("V0")

\* C12: the preconditions are checked in a fixed order (rotation enabled,
\* token known, token AWSCURRENT, token AWSPENDING, step name) and the first
\* one that applies decides the outcome of a request that violates several:
\* a disabled secret yields RotationNotEnabled whatever the token and the
\* step, an unknown token on an enabled secret yields UnknownVersion whatever
\* the step, a token that is AWSCURRENT returns whatever the step, and a token
\* with neither label yields VersionNotPending whatever the step; the four
\* failures are distinct from one another.
Unknown  == Requested \notin DOMAIN VersionIdsToStages
Unstaged == ~Unknown /\ StagesOf(Requested) \cap {"AWSCURRENT", "AWSPENDING"} = {}
BadStep  == event'.Step \notin Steps

C12_FirstViolationDecides ==
  [][Described =>
       /\ ~RotationEnabled => result' = "RotationNotEnabled"
       /\ (RotationEnabled /\ Unknown) => result' = "UnknownVersion"
       /\ (RotationEnabled /\ "AWSCURRENT" \in StagesOf(Requested))
            => result' = "ok"
       /\ (RotationEnabled /\ Unstaged) => result' = "VersionNotPending"
       /\ (RotationEnabled /\ PendingOnly(Requested) /\ BadStep)
            => result' = "InvalidStep"]_vars

\* a disabled secret, an unknown token and an invalid step in one request
C12_Witness ==
  /\ ~RotationEnabled
  /\ event.ClientRequestToken \in VersionIds \ DOMAIN VersionIdsToStages
  /\ event.Step = "invalidStep"
  /\ upstream = "none"
  /\ result = "RotationNotEnabled"

\* C13: a createSecret that succeeds for a token that is AWSPENDING makes
\* exactly one put_secret_value call, under the request's token and with the
\* stage list [AWSPENDING]; the value it writes, which is the token's stored
\* value afterwards, has the members of the AWSCURRENT version's payload with
\* equal values, except the password member, which holds the password
\* generated by this invocation; the token's labels are exactly {AWSPENDING}.
CurrentDict == json_loads(get_secret_value("AWSCURRENT", None))
PasswordKey == "opensearch_master_password"

C13_CreateWritesPending ==
  [][(event'.Step = "createSecret" /\ result' = "ok" /\ PendingOnly(Requested))
       => /\ Len(calls') = 1
          /\ calls'[1].op = "put_secret_value"
          /\ calls'[1].token = Requested
          /\ calls'[1].stages = {"AWSPENDING"}
          /\ SecretString' = [SecretString EXCEPT ![Requested] = calls'[1].value]
          /\ VersionIdsToStages'[Requested] = {"AWSPENDING"}
          /\ Holders(VersionIdsToStages', "AWSPENDING") = {Requested}
          /\ LET written == json_loads(calls'[1].value) IN
               /\ Keys(written) = Keys(CurrentDict) \cup {PasswordKey}
               /\ \A k \in Keys(CurrentDict) \ {PasswordKey} :
                    DictGet(written, k) = DictGet(CurrentDict, k)
               /\ DictGet(written, PasswordKey) = generated'
               /\ generated' \in Passwords]_vars

\* a value was written for a token that had none, beside a username member
C13_Witness ==
  /\ event.Step = "createSecret" /\ result = "ok"
  /\ event.ClientRequestToken = Token
  /\ Len(calls) = 1
  /\ SecretString[Token] = calls[1].value
  /\ DictGet(json_loads(SecretString[Token]), "opensearch_master_username") = "admin"
  /\ DictGet(json_loads(SecretString[Token]), PasswordKey) = generated
  /\ DictGet(json_loads(SecretString["V0"]), PasswordKey) # generated

\* C14: a setSecret that succeeds makes exactly one call, the update of the
\* target's master credential, and passes it the password member of the
\* AWSPENDING version of the request's token (not the AWSCURRENT version's);
\* it changes nothing in the store.
C14_SetPushesPending ==
  [][(event'.Step = "setSecret" /\ result' = "ok" /\ PendingOnly(Requested))
       => /\ calls' = <<[op |-> "update_domain_config",
                          value |-> DictGet(json_loads(SecretString[Requested]),
                                            PasswordKey)]>>
          /\ MasterUserPassword' = calls'[1].value
          /\ VersionIdsToStages' = VersionIdsToStages
          /\ SecretString' = SecretString]_vars

\* the pushed password is the staged one and differs from the one in use
C14_Witness ==
  /\ event.Step = "setSecret" /\ result = "ok"
  /\ event.ClientRequestToken = Token
  /\ Len(calls) = 1
  /\ calls[1].value = DictGet(json_loads(SecretString[Token]), PasswordKey)
  /\ calls[1].value \in Passwords
  /\ calls[1].value # DictGet(CurrentDict, PasswordKey)

\* C15: testSecret for a token that is AWSPENDING fails when the token's
\* payload lacks a non-empty password or a non-empty username, when the
\* target rejects the staged password, and when the read or the handshake
\* call fails; it makes at most one call, the handshake, and changes neither
\* the store nor the target's credential.
PendingDict == json_loads(SecretString[Requested])
Blank(value) == value \in {None, ""}

C15_TestFails ==
  [][(event'.Step = "testSecret" /\ Described /\ PendingOnly(Requested))
       => /\ (Blank(DictGet(PendingDict, PasswordKey))
                 \/ Blank(DictGet(PendingDict, "opensearch_master_username")))
               => /\ result' \notin {"ok", "none"}
                  /\ calls' = <<>>
                  /\ (upstream' # "read" /\ SecretString[Requested] # NoValue)
                       => result' = "MissingCredentialFields"
          /\ DictGet(PendingDict, PasswordKey) # MasterUserPassword
               => result' \notin {"ok", "none"}
          /\ upstream' # "none" => result' \notin {"ok", "none"}
          /\ upstream' = "read" => result' = "UpstreamCallFailed"
          /\ Len(calls') <= 1
          /\ \A i \in DOMAIN calls' : calls'[i].op = "info"
          /\ VersionIdsToStages' = VersionIdsToStages
          /\ SecretString' = SecretString
          /\ MasterUserPassword' = MasterUserPassword]_vars

\* an empty username beside the password the target holds
C15_Witness ==
  /\ event.Step = "testSecret" /\ result = "MissingCredentialFields"
  /\ event.ClientRequestToken = Token
  /\ DictGet(json_loads(SecretString[Token]), "opensearch_master_username") = ""
  /\ DictGet(json_loads(SecretString[Token]), PasswordKey) = MasterUserPassword

\* C17: every invocation of the credential rotator that fails has published
\* exactly one notification by the time the failure propagates.
C17_FailureNotifiesOnce ==
  result \notin {"ok", "none"} => Len(notified) = 1

\* C18: in a rotation of token T1 over the secret whose version V0 is
\* AWSCURRENT, once the orchestrator has seen createSecret, setSecret,
\* testSecret and finishSecret each return, T1 is AWSCURRENT, V0 is not,
\* T1's payload carries a generated password of 24 characters, and the
\* target's master password is the password of the version now AWSCURRENT.
C18_EndToEnd ==
  phase = Done =>
    /\ "AWSCURRENT" \in StagesOf(Token)
    /\ "AWSCURRENT" \notin StagesOf("V0")
    /\ DictGet(json_loads(SecretString[Token]), PasswordKey) \in Passwords
    /\ Len(DictGet(json_loads(SecretString[Token]), PasswordKey)) = 24
    /\ MasterUserPassword = DictGet(CurrentDict, PasswordKey)

\* the four steps returned one after the other, none failing, and the new
\* password differs from the one V0 carries
C18_Witness ==
  /\ phase = Done
  /\ faultsLeft = MaxFaults
  /\ event.Step = "finishSecret" /\ result = "ok"
  /\ prev.Step = "testSecret" /\ prev.result = "ok"
  /\ MasterUserPassword # DictGet(json_loads(SecretString["V0"]), PasswordKey)

\* C19: of createSecret invocations for the same token interleaved at the
\* granularity of store calls, at most one gets its generated password stored
\* as the AWSPENDING payload: once the AWSPENDING version has a payload no
\* later put_secret_value replaces it, the label stays on the token, and an
\* invocation returns only if the stored payload carries its own password.
PendingValue == get_secret_value("AWSPENDING", None)

C19_PendingWrittenOnce ==
  [][/\ PendingValue # NoValue => PendingValue' = PendingValue
     /\ Holders(VersionIdsToStages', "AWSPENDING") = {Token}
     /\ \A i \in Invocations :
          (pc[i] = "put_secret_value" /\ pc'[i] = "returned")
            => DictGet(json_loads(PendingValue'), PasswordKey)
                 = local[i].new_password]_vars

\* both invocations read before either wrote, drew different passwords, and
\* the second write was rejected
C19_Witness ==
  /\ pc[1] = "returned" /\ pc[2] = "raised"
  /\ local[1].new_password # local[2].new_password
  /\ local[2].current_secret # NoValue
  /\ DictGet(json_loads(PendingValue), PasswordKey) = local[1].new_password

\* C20: an EIP rotation for which the tag filter matches no gateway returns
\* the failure result naming GatewayNotFound, makes exactly one publish call,
\* whose subject is the failure subject, and makes no allocate_address,
\* associate_address or release_address call (the lookup and the publish
\* themselves not failing).
C20_GatewayNotFound ==
  [][(NatGateways = <<>>
        /\ eipFaults' \cap {"describe_nat_gateways", "publish_failure"} = {})
       => /\ response'.returned /\ response'.statusCode = 500
          /\ response'.body.error = "GatewayNotFound"
          /\ Len(published') = 1
          /\ published'[1].Subject = "FAILED: NAT Gateway EIP Rotation"
          /\ published'[1].delivered
          /\ published'[1].Message.error = "GatewayNotFound"
          /\ ec2calls' = <<>>
          /\ UNCHANGED <<NatGateways, Addresses, allocations>>]_vars

C20_Witness ==
  /\ NatGateways = <<>>
  /\ response.returned /\ response.statusCode = 500
  /\ response.body.error = "GatewayNotFound"
  /\ Len(published) = 1 /\ published[1].delivered
  /\ ec2calls = <<>>
  /\ eipFaults = {}

\* C16: neither component retries within one invocation.  The credential
\* rotator makes at most one store write or target call, and an invocation in
\* which a store or target call failed ends by raising that failure; the EIP
\* rotator makes at most one allocate_address, one associate_address and one
\* release_address call.
Count(seq, op) == Cardinality({i \in DOMAIN seq : seq[i].op = op})

C16_NoRetries ==
  /\ Len(calls) <= 1
  /\ upstream = "describe_secret" => result = "UpstreamCallFailed"
  /\ (upstream = "read" /\ result = "ok") => calls = <<>>
  /\ (upstream \in {"write", "lost"} /\ calls # <<>>)
       => result = "UpstreamCallFailed"
  /\ \A op \in {"allocate_address", "associate_address", "release_address"} :
       Count(ec2calls, op) <= 1

\* a put_secret_value that failed and was not repeated, beside an EIP rotation
\* whose release_address failed and was not repeated
C16_Witness ==
  /\ event.Step = "createSecret" /\ upstream = "write"
  /\ Len(calls) = 1 /\ calls[1].op = "put_secret_value"
  /\ result = "UpstreamCallFailed"
  /\ "release_address" \in eipFaults
  /\ Count(ec2calls, "release_address") = 1
  /\ response.returned /\ response.statusCode = 500

\* C21: an EIP rotation whose gateway has no address fails with
\* NoExistingAssociation before anything is allocated: it returns the failure
\* result, makes no allocate_address and no associate_address call, leaves
\* the addresses as they were, and makes exactly one publish call, with the
\* failure subject (the lookup and the publish themselves not failing).
FirstGatewayBare ==
  NatGateways # <<>> /\ NatGateways[1].NatGatewayAddresses = <<>>

C21_NoExistingAssociation ==
  [][(FirstGatewayBare
        /\ eipFaults' \cap {"describe_nat_gateways", "publish_failure"} = {})
       => /\ response'.returned /\ response'.statusCode = 500
          /\ response'.body.error = "NoExistingAssociation"
          /\ Count(ec2calls', "allocate_address") = 0
          /\ Count(ec2calls', "associate_address") = 0
          /\ Len(published') = 1
          /\ published'[1].Subject = "FAILED: NAT Gateway EIP Rotation"
          /\ published'[1].Message.error = "NoExistingAssociation"
          /\ UNCHANGED <<NatGateways, Addresses, allocations>>]_vars

\* the first of two gateways has no address, the second has one
C21_Witness ==
  /\ Len(NatGateways) = 2
  /\ FirstGatewayBare
  /\ response.returned /\ response.statusCode = 500
  /\ response.body.error = "NoExistingAssociation"
  /\ Len(published) = 1 /\ published[1].delivered
  /\ allocations = 0

\* C22: an EIP rotation of a gateway with one address that returns the
\* success status has made exactly one allocate_address and exactly one
\* associate_address call, the latter naming the allocation just issued and
\* the network interface the old address was bound to, so that the interface
\* is bound to the new allocation afterwards; it has made exactly one publish
\* call, with the success subject.
OldAssociation == NatGateways[1].NatGatewayAddresses[1]
Issued == Addresses' \ Addresses

C22_SuccessfulRotation ==
  [][(NatGateways # <<>> /\ Len(NatGateways[1].NatGatewayAddresses) = 1
        /\ response'.statusCode = 200)
       => /\ response'.returned
          /\ Count(ec2calls', "allocate_address") = 1
          /\ Count(ec2calls', "associate_address") = 1
          /\ allocations' = allocations + 1
          /\ Cardinality(Issued) = 1
          /\ \A i \in DOMAIN ec2calls' :
               ec2calls'[i].op = "associate_address"
                 => /\ ec2calls'[i].AllocationId \in Issued
                    /\ ec2calls'[i].NetworkInterfaceId
                         = OldAssociation.NetworkInterfaceId
          /\ NatGateways'[1].NatGatewayAddresses[1].NetworkInterfaceId
               = OldAssociation.NetworkInterfaceId
          /\ NatGateways'[1].NatGatewayAddresses[1].AllocationId \in Issued
          /\ Len(published') = 1
          /\ published'[1].Subject = "SUCCESS: NAT Gateway EIP Rotated"
          /\ published'[1].delivered]_vars

\* the second rotation of the gateway: the address it replaces is the one
\* the first rotation bound
C22_Witness ==
  /\ response.returned /\ response.statusCode = 200
  /\ allocations = 2
  /\ Len(NatGateways) = 1 /\ Len(NatGateways[1].NatGatewayAddresses) = 1
  /\ NatGateways[1].NatGatewayAddresses[1].AllocationId = "eipalloc-2"
  /\ Len(published) = 1

\* C23: a successful EIP rotation that keeps the old address names the old
\* allocation in its success result or in its success notification.
Retains == deployment # "infrastructure"

C23_RetainReportsOld ==
  [][(Retains /\ NatGateways # <<>> /\ ~FirstGatewayBare
        /\ response'.statusCode = 200)
       => OldAssociation.AllocationId
            \in response'.body.mentions \cup published'[1].Message.mentions]_vars

\* C24: an EIP rotation that fails after it read the old association (at
\* allocate_address, associate_address, release_address or the success
\* publish) names the old allocation in its failure result or failure
\* notification and flags it for manual follow-up; one that fails before
\* adds no such guidance.
FailureText == published'[Len(published')].Message

C24_FailureNamesOld ==
  [][(eipFaults' # {} \/ response'.statusCode = 500)
       => IF NatGateways # <<>> /\ ~FirstGatewayBare
               /\ "describe_nat_gateways" \notin eipFaults'
            THEN /\ FailureText.actionRequired
                 /\ OldAssociation.AllocationId \in FailureText.mentions
            ELSE /\ ~FailureText.actionRequired
                 /\ FailureText.mentions \cap Addresses = {}]_vars

\* C25: every invocation of the EIP rotator returns a result, whichever of
\* its calls fail, and the result has the failure status whenever the
\* rotation did not complete.
C25_NeverRaises ==
  response # NoResponse =>
    /\ response.returned
    /\ eipFaults # {} => response.statusCode = 500

\* C26: every invocation of the EIP rotator calls publish exactly once, on
\* the success path and on every failure path, the failure of the success
\* publish included.
C26_PublishOnce ==
  response # NoResponse => Len(published) = 1

\* C27: the old allocation is disposed of as the deployed form says.  The
\* form that releases calls release_address at most once, for the old
\* allocation, after the associate_address call and only when that call and
\* allocate_address succeeded, and always calls it then; when allocate_address
\* or associate_address failed it is not called and the allocation bound to
\* the interface still exists.  The forms that retain never call it.
Ops(seq) == [i \in DOMAIN seq |-> seq[i].op]

C27_Disposal ==
  [][(NatGateways # <<>> /\ ~FirstGatewayBare)
       => IF Retains THEN Count(ec2calls', "release_address") = 0
          ELSE /\ Count(ec2calls', "release_address") <= 1
               /\ Count(ec2calls', "release_address") = 1
                    <=> (Ops(ec2calls') = <<"allocate_address", "associate_address",
                                            "release_address">>
                         /\ eipFaults' \cap {"allocate_address",
                                             "associate_address"} = {})
               /\ Count(ec2calls', "associate_address") = 1
                     /\ eipFaults' \cap {"allocate_address",
                                         "associate_address"} = {}
                    => Count(ec2calls', "release_address") = 1
               /\ \A i \in DOMAIN ec2calls' :
                    ec2calls'[i].op = "release_address"
                      => ec2calls'[i].AllocationId = OldAssociation.AllocationId
               /\ eipFaults' \cap {"allocate_address", "associate_address"} # {}
                    => /\ NatGateways' = NatGateways
                       /\ Bound(NatGateways') \subseteq Addresses']_vars

\* the releasing form after a complete rotation
C27_Witness ==
  /\ deployment = "infrastructure"
  /\ Count(ec2calls, "release_address") = 1
  /\ eipFaults = {}
  /\ response.statusCode = 200
  /\ "eipalloc-a" \notin Addresses
  /\ Bound(NatGateways) \subseteq Addresses

\* C28: during and after an EIP rotation, ended by success or by a failure at
\* any stage, each network interface of the gateway is bound to one existing
\* allocation: the first interface to the old allocation until
\* associate_address has succeeded and to the new one from then on, the other
\* interfaces to what they were bound to; the only calls made are
\* allocate_address, associate_address and release_address, never a
\* disassociation.
Associated ==
  /\ Count(ec2calls', "associate_address") = 1
  /\ "associate_address" \notin eipFaults'

C28_AlwaysBound ==
  [][(NatGateways # <<>> /\ ~FirstGatewayBare)
       => /\ \A i \in DOMAIN ec2calls' :
               ec2calls'[i].op \in {"allocate_address", "associate_address",
                                    "release_address"}
          /\ Bound(NatGateways') \subseteq Addresses'
          /\ DOMAIN NatGateways' = DOMAIN NatGateways
          /\ \A g \in DOMAIN NatGateways :
               /\ DOMAIN NatGateways'[g].NatGatewayAddresses
                    = DOMAIN NatGateways[g].NatGatewayAddresses
               /\ \A a \in DOMAIN NatGateways[g].NatGatewayAddresses :
                    LET before == NatGateways[g].NatGatewayAddresses[a]
                        after  == NatGateways'[g].NatGatewayAddresses[a]
                    IN /\ after.NetworkInterfaceId = before.NetworkInterfaceId
                       /\ after.AllocationId \in Addresses'
                       /\ after.AllocationId =
                            IF Associated /\ g = 1 /\ a = 1
                              THEN CHOOSE id \in Issued : TRUE
                              ELSE before.AllocationId]_vars

\* a gateway with two addresses: the first is replaced, the second kept, and
\* the old allocation released
C28_Witness ==
  /\ Len(NatGateways) = 1 /\ Len(NatGateways[1].NatGatewayAddresses) = 2
  /\ NatGateways[1].NatGatewayAddresses[1].AllocationId = "eipalloc-1"
  /\ NatGateways[1].NatGatewayAddresses[2].AllocationId = "eipalloc-b"
  /\ Addresses = {"eipalloc-1", "eipalloc-b"}
  /\ response.statusCode = 200

(* ----------------------- the generator on its own ----------------------- *)
\* the length argument: the default when the call names none
Length(arg) == IF arg = NoLength THEN DefaultLength ELSE arg

\* lengths asked for: too short ones, the shortest allowed up to MaxLength,
\* and none (the default)
Lengths == {0, MinLength - 1} \cup (MinLength .. MaxLength) \cup {NoLength}

\* draws of random.choice for the four class characters (first, a middle and
\* last element of each class), for the remaining characters (the first of
\* each class and the last of the alphabet), and of random.shuffle
ClassDraws == {0, 9, 25}
FillDraws  == {0, 26, 52, 62, 87}
Shuffles   == {0, 1, 5}

\* the draws for the remaining length - 4 characters: f1 and f2 in turn
Fill(length, f1, f2) ==
  [i \in 1 .. length - 4 |-> IF i % 2 = 1 THEN f1 ELSE f2]

Draws ==
  {[length |-> n, first |-> f, fill |-> Fill(Length(n), f1, f2), shuffle |-> s] :
     n \in Lengths, f \in [1 .. 4 -> ClassDraws],
     f1 \in FillDraws, f2 \in FillDraws, s \in Shuffles}

InitPassword ==
  /\ NoRotation
  /\ NoEip
  /\ NotLogging
  /\ drawn \in Draws
  /\ returned = NoPassword

\* one call of generate_complex_password
Generate ==
  /\ drawn # NoDraw
  /\ returned = NoPassword
  /\ returned' = complex_password(Length(drawn.length), drawn.first,
                                  drawn.fill, drawn.shuffle)
  /\ UNCHANGED <<drawn, rotatorVars, supervisorVars, concurrentVars, eipVars,
                 loggerVars>>

NextPassword == Generate

SpecPassword == InitPassword /\ [][NextPassword]_vars

\* the characters of a string, and the elements of a sequence
Chars(s)   == {SubSeq(s, i, i) : i \in 1 .. Len(s)}
Range(seq) == {seq[i] : i \in DOMAIN seq}

\* the call returned a password
Generated == returned \notin {NoPassword, "InvalidPasswordLength"}

\* C29: for every requested length of at least 8 the generator returns a
\* string of exactly that length, 24 when no length is named, holding at least
\* one lowercase letter, one uppercase letter, one digit and one symbol of
\* the safe set, whatever the draws and the shuffle are
C29_LengthAndClasses ==
  (returned # NoPassword /\ Length(drawn.length) >= MinLength)
    => /\ Generated
       /\ Len(returned) = Length(drawn.length)
       /\ drawn.length = NoLength => Len(returned) = 24
       /\ Chars(returned) \cap Range(Lowercase) # {}
       /\ Chars(returned) \cap Range(Uppercase) # {}
       /\ Chars(returned) \cap Range(Digits) # {}
       /\ Chars(returned) \cap Range(Symbols) # {}

\* a password of the longest explicit length whose remaining characters were
\* all drawn lowercase: the other classes come from the first four draws only
C29_Witness ==
  /\ drawn.length = MaxLength
  /\ \A i \in DOMAIN drawn.fill : drawn.fill[i] = 0
  /\ drawn.shuffle = 5
  /\ Generated
  /\ Len(returned) = MaxLength

\* the characters the generator must never emit
Unsafe == {"\"", "'", "\\", "@", "/"}

\* C30: no password the generator returns, and so none createSecret writes,
\* holds a double quote, single quote, backslash, at-sign or slash: every
\* character comes from an alphabet that has none of them
C30_NoUnsafeCharacter ==
  /\ Range(AllChars) \cap Unsafe = {}
  /\ \A p \in Passwords : Chars(p) \cap Unsafe = {}
  /\ Generated => /\ Chars(returned) \subseteq Range(AllChars)
                  /\ Chars(returned) \cap Unsafe = {}

\* a default-length password holding the first and the last safe symbol
C30_Witness ==
  /\ drawn.length = NoLength
  /\ Generated
  /\ {"!", "~"} \subseteq Chars(returned)

\* C31: for every requested length below 8 the generator fails with the
\* InvalidPasswordLength error and returns no password
C31_InvalidPasswordLength ==
  (returned # NoPassword /\ Length(drawn.length) < MinLength)
    => /\ returned = "InvalidPasswordLength"
       /\ ~Generated

\* a call asking for one character less than the minimum
C31_Witness ==
  /\ drawn.length = MinLength - 1
  /\ returned = "InvalidPasswordLength"

(* ------------------------- the logger on its own ------------------------- *)
\* the services whose structured_log scrubs its data
Services == {"rotate-nat-gateway-eip", "secret-rotation"}

\* values without a nested value: a string, and a dictionary of one
\* sensitive member
Leaves == {Str("visible"), Dict("NewPassword" :> Str("hidden"))}

\* a value around the value v: dictionaries with sensitive and other members,
\* a list, and a sensitive member holding v
Around(v) ==
  { Dict("password" :> Str("secret123") @@ "public_data" :> Str("this should remain")
         @@ "nested" :> v),
    Dict("allocation_id" :> Str("eipalloc-12345")
         @@ "network_interface_id" :> Str("eni-67890") @@ "normal" :> v),
    List(<<v, Str("visible")>>),
    Dict("Secret" :> v @@ "items" :> List(<<v>>)) }

\* logged data nesting at most depth deep
RECURSIVE LogData(_)
LogData(depth) ==
  IF depth = 0 THEN Leaves
  ELSE Leaves \cup UNION {Around(v) : v \in LogData(depth - 1)}

InitScrub ==
  /\ NoRotation
  /\ NoEip
  /\ NotGenerating
  /\ log_service \in Services
  /\ log_data \in LogData(MaxDepth)
  /\ scrubbed_data = NotScrubbed

\* structured_log scrubbing the data it was given
Scrub ==
  /\ log_data # NoData
  /\ scrubbed_data = NotScrubbed
  /\ scrubbed_data' = scrub_sensitive_data(log_service, log_data)
  /\ UNCHANGED <<log_service, log_data, rotatorVars, supervisorVars,
                 concurrentVars, eipVars, generatorVars>>

NextScrub == Scrub

SpecScrub == InitScrub /\ [][NextScrub]_vars

\* a step into a value: by a dictionary key or by a list index
Key(k)      == [key |-> k]
Index(i)    == [index |-> i]
IsKey(step) == DOMAIN step = {"key"}

\* the paths into a value, and the value at the end of a path
RECURSIVE Paths(_)
Paths(v) ==
  {<<>>} \cup
  (IF v.kind = "dict"
     THEN UNION {{<<Key(k)>> \o path : path \in Paths(v.items[k])} :
                 k \in DOMAIN v.items}
   ELSE IF v.kind = "list"
     THEN UNION {{<<Index(i)>> \o path : path \in Paths(v.elems[i])} :
                 i \in DOMAIN v.elems}
   ELSE {})

Missing == [kind |-> "missing"]

RECURSIVE At(_, _)
At(v, path) ==
  IF path = <<>> THEN v
  ELSE LET step == Head(path)
       IN IF IsKey(step)
            THEN IF v.kind = "dict" /\ step.key \in DOMAIN v.items
                   THEN At(v.items[step.key], Tail(path))
                   ELSE Missing
            ELSE IF v.kind = "list" /\ step.index \in DOMAIN v.elems
                   THEN At(v.elems[step.index], Tail(path))
                   ELSE Missing

\* the path goes through dictionaries only
DictPath(path) == \A i \in DOMAIN path : IsKey(path[i])
\* the path's i-th step is a key of a sensitive family
Sensitive(path, i) == IsKey(path[i]) /\ is_sensitive(log_service, path[i].key)
\* no step before the last is a sensitive key
Exposed(path) == \A i \in 1 .. Len(path) - 1 : ~Sensitive(path, i)

\* every member reached through dictionaries is the marker when its key is
\* sensitive, and else the same value, a dictionary staying a dictionary of
\* the same keys
ScrubbedThroughDicts ==
  \A path \in Paths(log_data) :
    (path # <<>> /\ DictPath(path) /\ Exposed(path))
      => LET before == At(log_data, path)
             after  == At(scrubbed_data, path)
         IN IF Sensitive(path, Len(path)) THEN after = REDACTED
            ELSE IF before.kind = "dict"
              THEN after.kind = "dict" /\ DOMAIN after.items = DOMAIN before.items
            ELSE after = before

\* C32: for dictionaries nested in dictionaries to any depth the value of
\* every key of a sensitive family (password, secret, allocation_id,
\* network_interface_id among them) becomes the redaction marker, every other
\* value that is not a dictionary (public_data) is returned as it was, and the
\* input is not modified
C32_ScrubNested ==
  /\ [](scrubbed_data # NotScrubbed
         => /\ ScrubbedThroughDicts
            /\ \A key \in {"password", "secret"} : is_sensitive(log_service, key)
            /\ log_service = "rotate-nat-gateway-eip"
                 => \A key \in {"allocation_id", "network_interface_id"} :
                      is_sensitive(log_service, key)
            /\ ~is_sensitive(log_service, "public_data"))
  /\ [][scrubbed_data' # scrubbed_data => log_data' = log_data]_vars

\* data three dictionaries deep scrubbed: password and allocation_id are
\* redacted under "nested" and "normal", public_data is kept
C32_Witness ==
  /\ scrubbed_data # NotScrubbed
  /\ LET inner == <<Key("nested"), Key("normal")>>
     IN /\ At(log_data, inner \o <<Key("password")>>) = Str("secret123")
        /\ At(scrubbed_data, inner \o <<Key("password")>>) = REDACTED
        /\ At(scrubbed_data, inner \o <<Key("public_data")>>)
             = Str("this should remain")
        /\ At(scrubbed_data, <<Key("nested"), Key("allocation_id")>>) = REDACTED

\* C33: redaction reaches every nested structure: a member with a sensitive
\* key is the marker wherever it occurs in the logged data, also in a
\* dictionary that is an element of a list
C33_ScrubEverywhere ==
  scrubbed_data # NotScrubbed
    => \A path \in Paths(log_data) :
         (path # <<>> /\ Exposed(path) /\ Sensitive(path, Len(path)))
           => At(scrubbed_data, path) = REDACTED

(* ---------------- the infrastructure variant's createSecret -------------- *)
\* the grave accent (ASCII 96), which a string of this module cannot hold,
\* by its name
GraveAccent == "grave-accent"

\* string.punctuation, the characters create_secret excludes, and the symbols
\* its generate_complex_password takes the required symbol from
punctuation == <<"!", "\"", "#", "$", "%", "&", "'", "(", ")", "*", "+", ",",
                 "-", ".", "/", ":", ";", "<", "=", ">", "?", "@", "[", "\\",
                 "]", "^", "_", GraveAccent, "{", "|", "}", "~">>
exclude_characters == <<"\"", "@", "/", "\\", GraveAccent, "'">>
required_symbols   == <<"!", "@", "#", "$", "%", "^", "&", "*", "(", ")", "_",
                        "+", "-", "=", "[", "]", "{", "}", "|", ";", ":", ",",
                        ".", "<", ">", "?">>

\* the length of the password, and the positions filled after the required four
InfrastructureLength == 24
Remaining            == 20

password_chars == Lowercase \o Uppercase \o Digits \o punctuation
allowed_chars  ==
  SelectSeq(password_chars, LAMBDA c : \A i \in DOMAIN exclude_characters :
                                         exclude_characters[i] # c)

\* the complexity test of create_secret
is_complex(new_password) ==
  /\ \E i \in 1 .. Len(new_password) :
       \E j \in DOMAIN Lowercase : SubSeq(new_password, i, i) = Lowercase[j]
  /\ \E i \in 1 .. Len(new_password) :
       \E j \in DOMAIN Uppercase : SubSeq(new_password, i, i) = Uppercase[j]
  /\ \E i \in 1 .. Len(new_password) :
       \E j \in DOMAIN Digits : SubSeq(new_password, i, i) = Digits[j]
  /\ \E i \in 1 .. Len(new_password) :
       \E j \in DOMAIN punctuation : SubSeq(new_password, i, i) = punctuation[j]

\* generate_complex_password(allowed_chars) of the variant
regenerated_password(allowed, first, fill, shuffle) ==
  LET password ==
        <<random_choice(Lowercase, first[1]), random_choice(Uppercase, first[2]),
          random_choice(Digits, first[3]), random_choice(required_symbols, first[4])>>
        \o [i \in 1 .. Remaining |-> random_choice(allowed, fill[i])]
  IN join(random_shuffle(password, shuffle))

\* new_password of create_secret: the first draw, regenerated when it lacks a
\* character class
infrastructure_password(draws) ==
  LET new_password ==
        join([i \in 1 .. InfrastructureLength |->
                random_choice(allowed_chars, draws.initial[i])])
  IN IF ~is_complex(new_password)
       THEN regenerated_password(allowed_chars, draws.first, draws.fill,
                                 draws.shuffle)
       ELSE new_password

\* draws of the required symbol: the first, the second and the last; draws
\* of the first 24 characters: the first of each class of allowed_chars
SymbolDraws  == {0, 1, 25}
InitialDraws == {0, 26, 52, 62}

\* the first draw repeats four draws in turn; the regeneration takes one draw
\* for the letters and the digit, one for the symbol, one for the rest
InfrastructureDraws ==
  {[initial |-> [i \in 1 .. InfrastructureLength |-> d[(i % 4) + 1]],
    first   |-> <<c, c, c, y>>,
    fill    |-> [i \in 1 .. Remaining |-> f],
    shuffle |-> r] :
     d \in [1 .. 4 -> InitialDraws], c \in {0, 9}, y \in SymbolDraws,
     f \in FillDraws, r \in {0, 5}}

InitInfrastructure ==
  /\ NoRotation
  /\ NoEip
  /\ NotLogging
  /\ drawn \in InfrastructureDraws
  /\ returned = NoPassword

\* one createSecret invocation of the variant for the staged token
CreateInfrastructure ==
  /\ drawn # NoDraw
  /\ returned = NoPassword
  /\ returned' = infrastructure_password(drawn)
  /\ Invoke("createSecret", Token, "none", infrastructure_password(drawn))
  /\ UNCHANGED <<drawn, supervisorVars, concurrentVars, eipVars, loggerVars>>

NextInfrastructure == CreateInfrastructure

SpecInfrastructure == InitInfrastructure /\ [][NextInfrastructure]_vars

\* the password member of the payload written for the staged token
Written == DictGet(json_loads(SecretString[Token]), PasswordKey)

\* C34: the password the variant's create_secret writes never holds one of
\* the characters it declares excluded, neither when the first draw is kept
\* nor when it is regenerated for missing a character class
C34_InfrastructureExcludes ==
  SecretString[Token] # NoValue
    => /\ Written = returned
       /\ \A i \in DOMAIN exclude_characters :
            ~contains(exclude_characters[i], Written)

(* ------------- the target's password against the stored ones ------------ *)
\* the password member of a version's payload, None when it has none
PasswordOf(v) ==
  IF SecretString[v] = NoValue THEN None
  ELSE DictGet(json_loads(SecretString[v]), PasswordKey)

\* the passwords of the versions carrying a stage
StagePasswords(stage) ==
  {PasswordOf(v) : v \in Holders(VersionIdsToStages, stage)}

\* a rotation starting while the target uses the AWSCURRENT password
InitInStep ==
  /\ Init
  /\ MasterUserPassword \in StagePasswords("AWSCURRENT")

SpecInStep == InitInStep /\ [][Next]_vars

\* C35: when the target's master password is the AWSCURRENT version's
\* password before a rotation starts, then after any sequence of step
\* invocations, in any order and with retries and failures, it is the password
\* of the version holding AWSCURRENT or of the version holding AWSPENDING
C35_TargetInStep ==
  MasterUserPassword
    \in StagePasswords("AWSCURRENT") \cup StagePasswords("AWSPENDING")

(* --------------------- order and frame of the steps ---------------------- *)
\* C36: the handler does not enforce the order of the steps: finishSecret for
\* a token that holds AWSPENDING moves AWSCURRENT to it whatever the token's
\* payload and the target's password are, also when createSecret, setSecret
\* or testSecret never succeeded for it
C36_FinishUnordered ==
  [][(/\ event'.Step = "finishSecret" /\ upstream' = "none"
      /\ RotationEnabled /\ PendingOnly(Requested))
       => (/\ result' = "ok"
           /\ "AWSCURRENT" \in VersionIdsToStages'[Requested]
           /\ SecretString'[Requested] = SecretString[Requested]
           /\ MasterUserPassword' = MasterUserPassword)]_vars

\* a version made AWSCURRENT that has no value: createSecret never wrote it,
\* so setSecret and testSecret never succeeded for it either
C36_Witness ==
  /\ event.Step = "finishSecret" /\ result = "ok" /\ Len(calls) = 1
  /\ "AWSCURRENT" \in StagesOf(event.ClientRequestToken)
  /\ SecretString[event.ClientRequestToken] = NoValue

\* C37: createSecret, setSecret and testSecret never change which version
\* holds AWSCURRENT nor that version's payload; the label moves only in a
\* finishSecret whose store operation took effect; and no step rewrites the
\* payload of a version other than the one the request token names
C37_CurrentFrame ==
  [][/\ event'.Step \in {"createSecret", "setSecret", "testSecret"}
          => /\ Holders(VersionIdsToStages', "AWSCURRENT")
                  = Holders(VersionIdsToStages, "AWSCURRENT")
             /\ \A v \in Holders(VersionIdsToStages, "AWSCURRENT") :
                  SecretString'[v] = SecretString[v]
     /\ Holders(VersionIdsToStages', "AWSCURRENT")
          # Holders(VersionIdsToStages, "AWSCURRENT")
          => /\ event'.Step = "finishSecret"
             /\ upstream' \in {"none", "lost"}
             /\ Len(calls') = 1 /\ calls'[1].op = "update_secret_version_stage"
     /\ \A v \in VersionIds :
          SecretString'[v] # SecretString[v] => v = Requested]_vars

\* createSecret has written the token's payload while V0 stays the only
\* AWSCURRENT version with its payload
C37_Witness ==
  /\ event.Step = "createSecret" /\ result = "ok" /\ Len(calls) = 1
  /\ SecretString[event.ClientRequestToken] # NoValue
  /\ generated = PasswordOf(event.ClientRequestToken)
  /\ Holders(VersionIdsToStages, "AWSCURRENT") = {"V0"}
  /\ SecretString["V0"] = InitialValue("V0")
  /\ event.ClientRequestToken # "V0"

\* C38: finishSecret changes only the AWSCURRENT label and issues no
\* operation that removes AWSPENDING: after a finishSecret that succeeded the
\* token carries AWSPENDING together with AWSCURRENT, and every later
\* invocation for a token carrying both is answered by the AWSCURRENT
\* short-circuit, which leaves it so
C38_PendingKept ==
  [][/\ (event'.Step = "finishSecret" /\ result' = "ok" /\ PendingOnly(Requested))
          => /\ {"AWSCURRENT", "AWSPENDING"} \subseteq VersionIdsToStages'[Requested]
             /\ \A i \in DOMAIN calls' :
                  /\ calls'[i].op = "update_secret_version_stage"
                  /\ calls'[i].stage = "AWSCURRENT"
             /\ DOMAIN VersionIdsToStages' = DOMAIN VersionIdsToStages
             /\ \A v \in DOMAIN VersionIdsToStages :
                  VersionIdsToStages'[v] \ {"AWSCURRENT"}
                    = VersionIdsToStages[v] \ {"AWSCURRENT"}
             /\ SecretString' = SecretString
             /\ MasterUserPassword' = MasterUserPassword
     /\ (/\ {"AWSCURRENT", "AWSPENDING"} \subseteq StagesOf(Requested)
         /\ RotationEnabled /\ Described)
          => /\ result' = "ok"
             /\ calls' = <<>>
             /\ VersionIdsToStages' = VersionIdsToStages
             /\ SecretString' = SecretString
             /\ MasterUserPassword' = MasterUserPassword]_vars

\* after a finishSecret demoted V0, a setSecret for the promoted token, which
\* still carries both labels, was answered without any call
C38_Witness ==
  /\ event.Step = "setSecret" /\ result = "ok" /\ calls = <<>>
  /\ event.ClientRequestToken # "V0"
  /\ "V0" \in DOMAIN VersionIdsToStages /\ VersionIdsToStages["V0"] = {}
  /\ VersionIdsToStages[event.ClientRequestToken] = {"AWSCURRENT", "AWSPENDING"}

Unbound(gateways, addresses) == addresses \ Bound(gateways)

\* the allocation ids a notification or the returned result names
Reported ==
  UNION {published'[i].Message.mentions : i \in DOMAIN published'}
    \cup (IF response'.returned THEN response'.body.mentions ELSE {})

\* C40: when associate_address fails after allocate_address succeeded there is
\* no compensating release: the new address stays allocated and unbound, the
\* old allocation stays bound to the interface, the new allocation is named
\* neither in the result nor in the failure notification, and the run adds
\* one outstanding allocation
C40_NoCompensation ==
  [][("associate_address" \in eipFaults')
       => /\ Ops(ec2calls') = <<"allocate_address", "associate_address">>
          /\ Cardinality(Issued) = 1
          /\ Issued \subseteq Unbound(NatGateways', Addresses')
          /\ NatGateways' = NatGateways
          /\ OldAssociation.AllocationId \in Addresses'
          /\ Issued \cap Reported = {}
          /\ Cardinality(Unbound(NatGateways', Addresses'))
               = Cardinality(Unbound(NatGateways, Addresses)) + 1]_vars

\* two runs failed at associate_address: two allocated addresses are bound to
\* nothing and the gateway keeps its first address
C40_Witness ==
  /\ eipFaults = {"associate_address"}
  /\ response.statusCode = 500
  /\ allocations = 2
  /\ Cardinality(Unbound(NatGateways, Addresses)) = 2
  /\ NatGateways[1].NatGatewayAddresses[1].AllocationId = "eipalloc-1"

====
